---- MODULE Spec2Model ----
(***************************************************************************)
(* Web3 JSON-RPC reverse proxy (src/src/server.ts): round-robin selection  *)
(* over upstream endpoints, per-endpoint health table, single-attempt      *)
(* dispatcher, retry orchestrator, error classifier and recovery scanner.  *)
(*                                                                         *)
(* Conventions.  A URL is a positive integer (its position in the          *)
(* configured list); 0 stands for `undefined`.  A JSON id is written as    *)
(* its JSON text ("0", "1", "\"\"", "\"a\"", "null"), "undefined" when the *)
(* key is absent.  A text is a sequence of case-folded tokens; the regular *)
(* expressions of the classifier are sequences of atoms over these tokens. *)
(* Time is counted in seconds and advances with the 30 s scanner timer.    *)
(***************************************************************************)
EXTENDS Integers, Sequences, FiniteSets, TLC

\* ------------------------------------------------------------------ bounds
\* largest number of configured upstream URLs
MaxUrls == 3
\* number of client connections that can be open at once
NumClients == 2
\* POST /rpc requests sent in a run with concurrent clients
MaxRequests == 2
\* POST /rpc requests sent in a run with one client
MaxSeqRequests == 5
\* number of firings of the recovery timer in one run
MaxTicks == 3
\* largest configured value of MAX_RETRY_ATTEMPTS
MaxRetryCfg == 2
\* per-endpoint capacity (env MAX_CONCURRENT_REQUESTS, default 200)
MAX_CONCURRENT_REQUESTS == 1
\* requests of the recovery run: with one endpoint, with two
MaxStreakRequests == 7
MaxRecoveryRequests == 4
\* largest number of URLs and of retries in the dispatch run
MaxUrlsDispatch == 2
MaxRetryDispatch == 1
\* longest error text (in tokens) given to the classifier
MaxTextLen == 3
\* primary picks of the round-robin run
MaxPicks == 8
\* recovery callbacks that can be running at once
NumScanners == 1
\* POST /rpc requests of the intake run
MaxIntakeRequests == 2
\* primary picks of the run in which health and load change between picks
MaxSelectorPicks == 3
\* POST /rpc requests of the run with local methods
MaxShortcutRequests == 2
\* POST /rpc requests of the run with the cache enabled
MaxCacheRequests == 2
\* elements of a batch, and POST /rpc requests of the run with batches
MaxBatchLen == 2
MaxBatchRequests == 1
\* POST /rpc requests of the run in which recovery is awaited
MaxLiveRequests == 3
MaxRetryPickCalls == 2
MaxScanRequests == 2
MaxCacheClockRequests == 3
MaxRaceRequests == 2

\* --------------------------------------------------------------- constants
SCAN_INTERVAL_S == 30
RECOVERY_AGE_S == 60
REQUEST_TIMEOUT_S == 6
UNHEALTHY_THRESHOLD == 3
NoUrl == 0

VARIABLES
  RPC_URLS,            \* configured URL list (process.env.RPC_URLS)
  MAX_RETRY_ATTEMPTS,  \* configured number of additional attempts
  ENABLE_CACHE,        \* configured: response caching on or off
  workload,            \* what the clients send: ids used, open connections
  budget,              \* POST requests the clients will still send
  currentIndex,        \* round-robin cursor
  endpointHealth,      \* Map url -> EndpointHealth
  requestCache,        \* Map cache key -> CacheEntry
  stats,               \* request statistics (RequestStats counters)
  now,                 \* Date.now() in seconds
  handler,             \* one serve.fetch invocation per client connection
  scanner,             \* the setInterval recovery callback
  streak,              \* history: failed dispatches in a row per endpoint
  classified,          \* classifier run: the error value and its label
  pickLog              \* round-robin run: the URLs picked so far

vars == <<RPC_URLS, MAX_RETRY_ATTEMPTS, ENABLE_CACHE, workload, budget, currentIndex,
          endpointHealth, requestCache, stats, now, handler, scanner, streak, classified,
          pickLog>>

\* the configuration and the workload never change after start-up
cfgVars == <<RPC_URLS, MAX_RETRY_ATTEMPTS, ENABLE_CACHE, workload>>

\* the variables of the classifier run and of the round-robin run
pureVars == <<classified, pickLog>>

\* ------------------------------------------------------------ error values
\* error value of a JSON-RPC body: absent (undefined), a string, or an
\* object with code, message and data ("" is the empty text)
NoError == [type |-> "undefined", text |-> <<>>, code |-> "", message |-> <<>>, data |-> <<>>]

StrError(t) == [type |-> "string", text |-> t, code |-> "", message |-> <<>>, data |-> <<>>]

ObjError(c, m, d) == [type |-> "object", text |-> <<>>, code |-> c, message |-> m, data |-> d]

\* JavaScript truthiness of an error value
Truthy(e) == e.type = "object" \/ (e.type = "string" /\ e.text # <<>>)

\* tokens that are one character long (what `.?` can consume)
OneChar == {" ", "-", "_", "x", ":", "!"}

Lit(t) == [k |-> "lit", s |-> {t}]

Alt(S) == [k |-> "lit", s |-> S]

AnyChar == [k |-> "opt", s |-> {}]

NORMAL_RPC_ERROR_PATTERNS ==
  << <<Lit("intrinsic"), Lit(" "), Lit("gas")>>,
     <<Lit("insufficient"), AnyChar, Lit("funds")>>,
     <<Lit("nonce"), Lit(" "), Lit("too"), Lit(" "), Alt({"low", "high"})>>,
     <<Lit("transaction"), AnyChar, Lit("underpriced")>>,
     <<Lit("invalid"), AnyChar, Lit("argument")>>,
     <<Lit("execution"), AnyChar, Lit("reverted")>>,
     <<Lit("contract"), AnyChar, Lit("call"), AnyChar, Lit("exception")>>,
     <<Lit("invalid"), AnyChar, Lit("signature")>>,
     <<Lit("gas"), AnyChar, Lit("limit")>>,
     <<Lit("already"), Lit(" "), Lit("known")>>,
     <<Lit("replacement"), AnyChar, Lit("transaction")>> >>

ENDPOINT_FAILURE_PATTERNS ==
  << <<Lit("rate"), AnyChar, Lit("limit")>>,
     <<Lit("too"), Lit(" "), Lit("many"), Lit(" "), Lit("requests")>>,
     <<Lit("request"), AnyChar, Lit("limit"), AnyChar, Lit("exceeded")>>,
     <<Lit("throttl")>>,
     <<Lit("429")>>,
     <<Lit("ru"), Lit(" "), Lit("credits")>>,
     <<Lit("compute"), AnyChar, Lit("units")>>,
     <<Lit("quota"), AnyChar, Lit("exceeded")>>,
     <<Lit("insufficient"), AnyChar, Lit("credits")>>,
     <<Lit("econnrefused")>>,
     <<Lit("etimedout")>>,
     <<Lit("enotfound")>>,
     <<Lit("socket"), Lit(" "), Lit("hang"), Lit(" "), Lit("up")>>,
     <<Lit("network"), Lit(" "), Lit("error")>>,
     <<Lit("connection"), AnyChar, Alt({"refused", "reset", "closed"})>>,
     <<Lit("timeout")>>,
     <<Lit("service"), AnyChar, Lit("unavailable")>>,
     <<Lit("503")>>,
     <<Lit("502")>>,
     <<Lit("gateway")>>,
     <<Lit("internal"), AnyChar, Lit("server"), AnyChar, Lit("error")>>,
     <<Lit("500")>> >>

\* the atoms pat[p..] match the text from token i on
RECURSIVE MatchFrom(_, _, _, _)
MatchFrom(pat, p, text, i) ==
  IF p > Len(pat) THEN TRUE
  ELSE IF pat[p].k = "lit"
    THEN i <= Len(text) /\ text[i] \in pat[p].s /\ MatchFrom(pat, p + 1, text, i + 1)
    ELSE \/ MatchFrom(pat, p + 1, text, i)
         \/ i <= Len(text) /\ text[i] \in OneChar /\ MatchFrom(pat, p + 1, text, i + 1)

\* RegExp.prototype.test: the pattern matches somewhere in the text
PatternTest(pat, text) == \E i \in 1..(Len(text) + 1) : MatchFrom(pat, 1, text, i)

\* JSON.stringify(error) of an object whose message and data are empty
JSONstringifyError(e) == <<"{", "code", ":", e.code, "}">>

\* errorStr of isEndpointFailure
ErrorStr(e) ==
  IF e.type = "string" THEN e.text
  ELSE IF e.message # <<>> THEN e.message
  ELSE IF e.data # <<>> THEN e.data
  ELSE JSONstringifyError(e)

\* for (const pattern of patterns) if (pattern.test(s)) return ...
RECURSIVE FirstMatch(_, _, _)
FirstMatch(patterns, k, s) ==
  IF k > Len(patterns) THEN 0
  ELSE IF PatternTest(patterns[k], s) THEN k
  ELSE FirstMatch(patterns, k + 1, s)

\* the classifier with the two loops in the opposite order
isEndpointFailureFailureFirst(error) ==
  IF ~Truthy(error) THEN FALSE
  ELSE IF FirstMatch(ENDPOINT_FAILURE_PATTERNS, 1, ErrorStr(error)) # 0 THEN TRUE
  ELSE FALSE

isEndpointFailure(error) ==
  IF ~Truthy(error) THEN FALSE
  ELSE IF FirstMatch(NORMAL_RPC_ERROR_PATTERNS, 1, ErrorStr(error)) # 0 THEN FALSE
  ELSE IF FirstMatch(ENDPOINT_FAILURE_PATTERNS, 1, ErrorStr(error)) # 0 THEN TRUE
  ELSE FALSE

\* ------------------------------------------------------------- health table
\* RPC_URLS.forEach(url => endpointHealth.set(url, {...}))
InitialHealth(urls) ==
  [u \in {urls[k] : k \in 1..Len(urls)} |->
     [isHealthy |-> TRUE, consecutiveFailures |-> 0, lastFailure |-> -1,
      activeRequests |-> 0, totalRequests |-> 0, totalFailures |-> 0]]

\* updateEndpointHealth that halves the failure count on success
updateEndpointHealthDecay(eh, url, success, t) ==
  IF url \notin DOMAIN eh THEN eh
  ELSE IF success
    THEN [eh EXCEPT ![url].totalRequests = @ + 1,
                    ![url].consecutiveFailures = @ \div 2,
                    ![url].isHealthy = TRUE]
    ELSE [eh EXCEPT ![url].totalRequests = @ + 1,
                    ![url].totalFailures = @ + 1,
                    ![url].consecutiveFailures = @ + 1,
                    ![url].lastFailure = t,
                    ![url].isHealthy =
                       IF eh[url].consecutiveFailures + 1 >= UNHEALTHY_THRESHOLD /\ @
                       THEN FALSE ELSE @]

\* updateEndpointHealth that counts a failed dispatch as a failure only
updateEndpointHealthFailureUncounted(eh, url, success, t) ==
  IF url \notin DOMAIN eh THEN eh
  ELSE IF success
    THEN [eh EXCEPT ![url].totalRequests = @ + 1,
                    ![url].consecutiveFailures = 0,
                    ![url].isHealthy = TRUE]
    ELSE [eh EXCEPT ![url].totalFailures = @ + 1,
                    ![url].consecutiveFailures = @ + 1,
                    ![url].lastFailure = t,
                    ![url].isHealthy =
                       IF eh[url].consecutiveFailures + 1 >= UNHEALTHY_THRESHOLD /\ @
                       THEN FALSE ELSE @]

\* updateEndpointHealth(url, success, responseTime) at time t
updateEndpointHealth(eh, url, success, t) ==
  IF url \notin DOMAIN eh THEN eh
  ELSE IF success
    THEN [eh EXCEPT ![url].totalRequests = @ + 1,
                    ![url].consecutiveFailures = 0,
                    ![url].isHealthy = TRUE]
    ELSE [eh EXCEPT ![url].totalRequests = @ + 1,
                    ![url].totalFailures = @ + 1,
                    ![url].consecutiveFailures = @ + 1,
                    ![url].lastFailure = t,
                    ![url].isHealthy =
                       IF eh[url].consecutiveFailures + 1 >= UNHEALTHY_THRESHOLD /\ @
                       THEN FALSE ELSE @]

\* if (health) health.activeRequests++
beginDispatch(eh, url) ==
  IF url \in DOMAIN eh THEN [eh EXCEPT ![url].activeRequests = @ + 1] ELSE eh

\* finally that releases the reservation only when the attempt did not throw
endDispatchOnSuccessOnly(eh, url, threw) ==
  IF url \in DOMAIN eh /\ ~threw THEN [eh EXCEPT ![url].activeRequests = @ - 1] ELSE eh

\* finally { if (health) health.activeRequests-- }
endDispatch(eh, url, threw) ==
  IF url \in DOMAIN eh THEN [eh EXCEPT ![url].activeRequests = @ - 1] ELSE eh

\* ------------------------------------------------------------------ selector
\* health && health.isHealthy && health.activeRequests < MAX_CONCURRENT_REQUESTS
Accepts(eh, url) ==
  url \in DOMAIN eh /\ eh[url].isHealthy /\ eh[url].activeRequests < MAX_CONCURRENT_REQUESTS

\* a fallback that returns the first configured URL whatever the loads
LeastLoadedFromFirstConfigured(urls, eh, k, bestUrl, lowest) ==
  IF Len(urls) > 0 THEN urls[1] ELSE bestUrl

\* for (const [url, health] of endpointHealth) ... least activeRequests, first wins
RECURSIVE LeastLoadedFrom(_, _, _, _, _)
LeastLoadedFrom(urls, eh, k, bestUrl, lowest) ==
  IF k > Len(urls) THEN bestUrl
  ELSE IF lowest = -1 \/ eh[urls[k]].activeRequests < lowest
    THEN LeastLoadedFrom(urls, eh, k + 1, urls[k], eh[urls[k]].activeRequests)
    ELSE LeastLoadedFrom(urls, eh, k + 1, bestUrl, lowest)

\* the while loop of getNextRpcUrlSimple; idx is the 0-based cursor
RECURSIVE RoundRobinWalk(_, _, _, _)
RoundRobinWalk(urls, eh, idx, attempts) ==
  IF attempts < Len(urls)
  THEN IF Accepts(eh, urls[idx + 1])
       THEN [url |-> urls[idx + 1], currentIndex |-> (idx + 1) % Len(urls), fallback |-> FALSE]
       ELSE RoundRobinWalk(urls, eh, (idx + 1) % Len(urls), attempts + 1)
  ELSE [url |-> LeastLoadedFrom(urls, eh, 1, IF Len(urls) > 0 THEN urls[1] ELSE NoUrl, -1),
        currentIndex |-> idx, fallback |-> TRUE]

\* a selector that returns the slot under the cursor without advancing it
getNextRpcUrlSimpleStuck(urls, eh, idx) ==
  [url |-> IF Len(urls) > 0 THEN urls[idx + 1] ELSE NoUrl, currentIndex |-> idx, fallback |-> FALSE]

\* getNextRpcUrlSimple(): the URL picked and the cursor afterwards
getNextRpcUrlSimple(urls, eh, idx) == RoundRobinWalk(urls, eh, idx, 0)

\* RPC_URLS.indexOf(url), 0-based, -1 when absent
RECURSIVE IndexOfFrom(_, _, _)
IndexOfFrom(urls, url, k) ==
  IF k > Len(urls) THEN -1
  ELSE IF urls[k] = url THEN k - 1
  ELSE IndexOfFrom(urls, url, k + 1)

\* the while loop of getRetryRpcUrls
RECURSIVE RetryWalk(_, _, _, _, _, _, _)
RetryWalk(urls, eh, failedUrl, maxRetries, idx, attempts, retryUrls) ==
  IF Len(retryUrls) < maxRetries /\ attempts < Len(urls)
  THEN RetryWalk(urls, eh, failedUrl, maxRetries, (idx + 1) % Len(urls), attempts + 1,
                 IF urls[idx + 1] # failedUrl /\ Accepts(eh, urls[idx + 1])
                 THEN Append(retryUrls, urls[idx + 1]) ELSE retryUrls)
  ELSE retryUrls

\* the while loop of a retry selection that does not skip the failed URL
RECURSIVE RetryWalkAll(_, _, _, _, _, _)
RetryWalkAll(urls, eh, maxRetries, idx, attempts, retryUrls) ==
  IF Len(retryUrls) < maxRetries /\ attempts < Len(urls)
  THEN RetryWalkAll(urls, eh, maxRetries, (idx + 1) % Len(urls), attempts + 1,
                    IF Accepts(eh, urls[idx + 1])
                    THEN Append(retryUrls, urls[idx + 1]) ELSE retryUrls)
  ELSE retryUrls

\* the while loop of a retry selection that goes round the list twice
RECURSIVE RetryWalkTwice(_, _, _, _, _, _, _)
RetryWalkTwice(urls, eh, failedUrl, maxRetries, idx, attempts, retryUrls) ==
  IF Len(retryUrls) < maxRetries /\ attempts < 2 * Len(urls)
  THEN RetryWalkTwice(urls, eh, failedUrl, maxRetries, (idx + 1) % Len(urls), attempts + 1,
                      IF urls[idx + 1] # failedUrl /\ Accepts(eh, urls[idx + 1])
                      THEN Append(retryUrls, urls[idx + 1]) ELSE retryUrls)
  ELSE retryUrls

\* getRetryRpcUrls that does not stop after one revolution
getRetryRpcUrlsTwice(urls, eh, failedUrl, maxRetries) ==
  IF IndexOfFrom(urls, failedUrl, 1) = -1 THEN <<>>
  ELSE RetryWalkTwice(urls, eh, failedUrl, maxRetries,
                      (IndexOfFrom(urls, failedUrl, 1) + 1) % Len(urls), 0, <<>>)

\* getRetryRpcUrls that starts at the failed URL itself
getRetryRpcUrlsFromFailed(urls, eh, failedUrl, maxRetries) ==
  IF IndexOfFrom(urls, failedUrl, 1) = -1 THEN <<>>
  ELSE RetryWalkAll(urls, eh, maxRetries, IndexOfFrom(urls, failedUrl, 1), 0, <<>>)

\* getRetryRpcUrls that ignores maxRetries
getRetryRpcUrlsUnbounded(urls, eh, failedUrl, maxRetries) ==
  IF IndexOfFrom(urls, failedUrl, 1) = -1 THEN <<>>
  ELSE RetryWalk(urls, eh, failedUrl, Len(urls),
                 (IndexOfFrom(urls, failedUrl, 1) + 1) % Len(urls), 0, <<>>)

\* getRetryRpcUrls(failedUrl, maxRetries)
getRetryRpcUrls(urls, eh, failedUrl, maxRetries) ==
  IF IndexOfFrom(urls, failedUrl, 1) = -1 THEN <<>>
  ELSE RetryWalk(urls, eh, failedUrl, maxRetries,
                 (IndexOfFrom(urls, failedUrl, 1) + 1) % Len(urls), 0, <<>>)

\* ---------------------------------------------------------------- envelopes
\* a response envelope as serialised: its keys in wire order and their values
\* (result "" and error NoError when the key is absent)
Envelope(keys, id, result, error) == [keys |-> keys, id |-> id, result |-> result, error |-> error]

NoEnvelope == Envelope(<<>>, "undefined", "", NoError)

ARBITRUM_CHAIN_ID == "42161"
ARBITRUM_CHAIN_ID_HEX == "0xa4b1"

\* ids that are falsy in JavaScript: 0, "", null, undefined
FalsyIds == {"0", "\"\"", "null", "undefined"}

AllIds == {"0", "1", "\"\"", "\"a\"", "null"}

\* request.id || null
IdOrNull(id) == IF id \in FalsyIds THEN "null" ELSE id

\* a shortcut that knows eth_chainId only: net_version goes upstream
handleLocalMethodChainIdOnly(request) ==
  IF request.method = "eth_chainId"
    THEN Envelope(<<"jsonrpc", "id", "result">>, IdOrNull(request.id), ARBITRUM_CHAIN_ID_HEX, NoError)
  ELSE NoEnvelope

\* handleLocalMethod(request); NoEnvelope stands for null
handleLocalMethod(request) ==
  IF request.method = "eth_chainId"
    THEN Envelope(<<"jsonrpc", "id", "result">>, IdOrNull(request.id), ARBITRUM_CHAIN_ID_HEX, NoError)
  ELSE IF request.method = "net_version"
    THEN Envelope(<<"jsonrpc", "id", "result">>, IdOrNull(request.id), ARBITRUM_CHAIN_ID, NoError)
  ELSE NoEnvelope

\* a normaliser that hands the upstream object back as it came
normalizeResponseFieldOrderIdentity(data) ==
  Envelope(data.keys, data.id, data.result, data.error)

\* normalizeResponseFieldOrder(response)
normalizeResponseFieldOrder(data) ==
  Envelope(<<"jsonrpc", "id">> \o
             (IF Truthy(data.error) THEN <<"error">>
              ELSE IF data.result # "" THEN <<"result">> ELSE <<>>),
           IF data.id # "undefined" THEN data.id ELSE "null",
           IF ~Truthy(data.error) THEN data.result ELSE "",
           IF Truthy(data.error) THEN data.error ELSE NoError)

AppError == ObjError("3", <<"execution", " ", "reverted">>, <<>>)

EpError == ObjError("-32000", <<"rate", " ", "limit", " ", "exceeded">>, <<>>)

UpstreamShapes == {"result", "resultNoId", "appError", "epError", "both", "neither"}

\* what the try block of proxyRequest can throw: response not ok, fetch rejected,
\* abort at REQUEST_TIMEOUT, json() rejected, .error read on a non-object body
ThrowKinds == {"http", "network", "timeout", "parse", "type"}

\* the value response.json() yields for each shape of 2xx body an upstream may
\* send in answer to `request` (keys in the upstream's own order)
UpstreamData(shape, request) ==
  CASE shape = "result" ->
         [keys |-> <<"id", "result", "jsonrpc">>, id |-> request.id,
          result |-> "0x10", error |-> NoError]
    [] shape = "resultNoId" ->
         [keys |-> <<"result", "jsonrpc">>, id |-> "undefined",
          result |-> "0x10", error |-> NoError]
    [] shape = "appError" ->
         [keys |-> <<"error", "id", "jsonrpc">>, id |-> request.id,
          result |-> "", error |-> AppError]
    [] shape = "epError" ->
         [keys |-> <<"error", "id", "jsonrpc">>, id |-> request.id,
          result |-> "", error |-> EpError]
    [] shape = "both" ->
         [keys |-> <<"result", "error", "id", "jsonrpc">>, id |-> request.id,
          result |-> "0x10", error |-> EpError]
    [] OTHER ->
         [keys |-> <<"id", "jsonrpc">>, id |-> request.id,
          result |-> "", error |-> NoError]

\* error.message of what the try block of proxyRequest throws
ThrownMessage(kind) ==
  CASE kind = "http" -> <<"http", " ", "error", "!", " ", "status", ":", " ", "503">>
    [] kind = "timeout" -> <<"the", " ", "operation", " ", "was", " ", "aborted">>
    [] kind = "parse" -> <<"json", " ", "parse", " ", "error">>
    [] kind = "type" -> <<"null", " ", "is", " ", "not", " ", "an", " ", "object">>
    [] OTHER -> <<"unable", " ", "to", " ", "connect">>

\* a catch block that does not tell the abort of the deadline from other errors
SyntheticErrorAlwaysInternal(request, kind) ==
  Envelope(<<"jsonrpc", "id", "error">>, IdOrNull(request.id), "",
           ObjError("-32603", <<"internal", " ", "error">>, ThrownMessage(kind)))

\* the envelope the catch block of proxyRequest returns
SyntheticError(request, kind) ==
  Envelope(<<"jsonrpc", "id", "error">>, IdOrNull(request.id), "",
           IF kind = "timeout"
           THEN ObjError("-32050", <<"request", " ", "timeout">>, ThrownMessage(kind))
           ELSE ObjError("-32603", <<"internal", " ", "error">>, ThrownMessage(kind)))

\* the answer of the size guard
TooLargeEnvelope ==
  Envelope(<<"jsonrpc", "id", "error">>, "null", "",
           ObjError("-32700", <<"request", " ", "too", " ", "large">>, <<>>))

ParseErrorEnvelope ==
  Envelope(<<"jsonrpc", "id", "error">>, "null", "", ObjError("-32700", <<"parse", " ", "error">>, <<>>))

InvalidRequestEnvelope(body) ==
  Envelope(<<"jsonrpc", "id", "error">>, IdOrNull(body.id), "",
           ObjError("-32600", <<"invalid", " ", "request">>, <<>>))

ProbeEnvelope == Envelope(<<"jsonrpc", "id", "result">>, "1", ARBITRUM_CHAIN_ID_HEX, NoError)

\* ---------------------------------------------------------------- statistics
\* const stats: RequestStats = {...}
ZeroStats ==
  [totalRequests |-> 0, successfulRequests |-> 0, failedRequests |-> 0,
   rpcErrors |-> 0, proxyErrors |-> 0]

\* stats.failedRequests++
CountFailed(st) == [st EXCEPT !.failedRequests = @ + 1]

\* the update of the statistics after the single-request path has its response
CountResponse(st, response) ==
  IF Truthy(response.error)
  THEN IF isEndpointFailure(response.error)
       THEN [st EXCEPT !.failedRequests = @ + 1, !.proxyErrors = @ + 1]
       ELSE [st EXCEPT !.rpcErrors = @ + 1, !.successfulRequests = @ + 1]
  ELSE [st EXCEPT !.successfulRequests = @ + 1]

\* ------------------------------------------------------------ client bodies
UnparseableBody == [kind |-> "unparseable", jsonrpc |-> FALSE, method |-> "", id |-> "undefined"]

EmptyObjectBody == [kind |-> "probe", jsonrpc |-> FALSE, method |-> "", id |-> "undefined"]

\* a body whose text is empty, blank, 'null' or 'undefined'
EmptyBody == [kind |-> "empty", jsonrpc |-> FALSE, method |-> "", id |-> "undefined"]

\* a body that parses to a number, a string or a boolean
NonObjectBody == [kind |-> "nonobject", jsonrpc |-> FALSE, method |-> "", id |-> "undefined"]

\* a request whose content-length header exceeds MAX_REQUEST_SIZE
OversizedBody == [kind |-> "oversized", jsonrpc |-> FALSE, method |-> "", id |-> "undefined"]

\* the batch element null
NullElement == [kind |-> "null", jsonrpc |-> FALSE, method |-> "", id |-> "undefined"]

\* the elements of the batches of workload w: the valid envelopes, an object
\* without jsonrpc, the empty object, a number or string, and null
Elements(w) ==
  {[kind |-> "envelope", jsonrpc |-> TRUE, method |-> m, id |-> i] : m \in w.methods, i \in w.ids}
  \cup {[kind |-> "envelope", jsonrpc |-> FALSE, method |-> "eth_call", id |-> i] : i \in w.ids}
  \cup {EmptyObjectBody, NonObjectBody, NullElement}

\* a body that parses to an array
BatchBody(elements) ==
  [kind |-> "batch", jsonrpc |-> FALSE, method |-> "", id |-> "undefined", elements |-> elements]

\* the bodies answered with the Parse error envelope
ParseRejected == {"unparseable", "empty", "nonobject"}

NoBody == [kind |-> "none", jsonrpc |-> FALSE, method |-> "", id |-> "undefined"]

\* the request bodies the clients of workload w send
Bodies(w) ==
  (IF w.framing
   THEN {UnparseableBody, EmptyObjectBody, EmptyBody, NonObjectBody, OversizedBody}
   ELSE {})
  \cup {[kind |-> "envelope", jsonrpc |-> TRUE, method |-> m, id |-> i] : m \in w.methods, i \in w.ids}
  \cup (IF w.framing
        THEN {[kind |-> "envelope", jsonrpc |-> FALSE, method |-> "eth_call", id |-> i] : i \in w.ids}
        ELSE {})
  \cup {BatchBody(es) : es \in UNION {[1..n -> Elements(w)] : n \in w.batches}}

\* -------------------------------------------------------------------- cache
CACHE_TTL_S == 1
CACHE_SWEEP_SIZE == 1000

\* getCacheKey(request): method + ":" + JSON.stringify(request.params || [])
getCacheKey(request) == <<request.method, ":", "[]">>

\* cached && Date.now() - cached.timestamp < CACHE_TTL
CacheFresh(cache, key, t) == key \in DOMAIN cache /\ t - cache[key].timestamp < CACHE_TTL_S

\* cleanCache(): drop the entries older than CACHE_TTL
cleanCache(cache, t) ==
  [k \in {j \in DOMAIN cache : ~(t - cache[j].timestamp > CACHE_TTL_S)} |-> cache[k]]

\* requestCache.set(cacheKey, {response, timestamp: Date.now()})
CacheSet(cache, key, envelope, t) ==
  [k \in DOMAIN cache \cup {key} |->
     IF k = key THEN [response |-> envelope, timestamp |-> t] ELSE cache[k]]

\* JSON.stringify({ ...cached.response, id: singleBody.id }): the id is
\* replaced in place; a key whose value is undefined is not serialised
CacheHitEnvelope(cached, request) ==
  Envelope(IF request.id = "undefined"
           THEN SelectSeq(cached.keys, LAMBDA k : k # "id") ELSE cached.keys,
           request.id, cached.result, cached.error)

\* ------------------------------------------------------------------ handlers
IdleHandler ==
  [pc |-> "idle", body |-> NoBody, stage |-> "none", primaryUrl |-> NoUrl, retryUrls |-> <<>>,
   inFlight |-> {}, result |-> NoEnvelope, recorded |-> "none", lastError |-> NoEnvelope,
   attempts |-> 0, completed |-> 0, response |-> NoEnvelope, status |-> 0, source |-> "none",
   isBatch |-> FALSE, batch |-> <<>>, batchRest |-> <<>>, batchResponses |-> <<>>]

\* the handler returns new Response(JSON.stringify(envelope), {status}); the
\* locals of proxyRequestWithRetry are gone
Respond(h, envelope, status, source) ==
  [h EXCEPT !.pc = "done", !.response = envelope, !.status = status, !.source = source,
            !.stage = "none", !.retryUrls = <<>>, !.result = NoEnvelope,
            !.lastError = NoEnvelope]

\* a handler that caches every response, with or without error
CacheAfterAnyResponse(cache, enabled, request, envelope, t) ==
  IF enabled THEN CacheSet(cache, getCacheKey(request), envelope, t) ELSE cache

\* if (!response.error && ENABLE_CACHE) requestCache.set(...)
CacheAfter(cache, enabled, request, envelope, t) ==
  IF enabled /\ ~Truthy(envelope.error)
  THEN CacheSet(cache, getCacheKey(request), envelope, t)
  ELSE cache

\* activeRequests++ for each URL of a sequence of dispatches started together
RECURSIVE BeginAll(_, _)
BeginAll(eh, urls) ==
  IF urls = <<>> THEN eh ELSE BeginAll(beginDispatch(eh, Head(urls)), Tail(urls))

\* a retry loop that sends to all the retry URLs at once
RetryLaunchAll(retryUrls) == retryUrls

\* for (const retryUrl of retryUrls) { await proxyRequest(request, retryUrl) ... }:
\* the URLs dispatched to before the loop next suspends
RetryLaunch(retryUrls) == <<Head(retryUrls)>>

\* if (MAX_RETRY_ATTEMPTS > 0) after a primary result that carries an error
ShouldRetry(envelope, maxRetryAttempts) == maxRetryAttempts > 0

\* a well-formed single envelope: has jsonrpc and method
ValidEnvelope(b) == b.kind = "envelope" /\ b.jsonrpc /\ b.method # ""

\* the single-request path finds a fresh cache entry for this request
CacheServes(b) ==
  ENABLE_CACHE /\ ValidEnvelope(b) /\ CacheFresh(requestCache, getCacheKey(b), now)

\* POST /rpc arrives; the handler suspends in await req.text()
Receive(c) ==
  /\ c <= workload.clients
  /\ handler[c].pc = "idle"
  /\ budget > 0
  /\ \E b \in Bodies(workload) :
       IF b.kind = "oversized"
       THEN /\ handler' = [handler EXCEPT ![c] =
                             Respond([IdleHandler EXCEPT !.body = b], TooLargeEnvelope, 413, "size")]
            /\ stats' = CountFailed([stats EXCEPT !.totalRequests = @ + 1])
       ELSE /\ handler' = [handler EXCEPT ![c] = [IdleHandler EXCEPT !.pc = "reading", !.body = b]]
            /\ stats' = [stats EXCEPT !.totalRequests = @ + 1]
  /\ budget' = budget - 1
  /\ UNCHANGED <<cfgVars, pureVars, currentIndex, endpointHealth, now, scanner, streak, requestCache>>

\* body read: a framing rejection, the empty-object probe, a cache hit, or a
\* method answered locally
HandleFraming(c) ==
  /\ handler[c].pc = "reading"
  /\ handler[c].body.kind # "batch"
  /\ LET b == handler[c].body IN
     /\ \/ ~ValidEnvelope(b)
        \/ CacheServes(b)
        \/ handleLocalMethod(b) # NoEnvelope
     /\ handler' = [handler EXCEPT ![c] =
          IF b.kind \in ParseRejected THEN Respond(@, ParseErrorEnvelope, 400, "parse")
          ELSE IF b.kind = "probe" THEN Respond(@, ProbeEnvelope, 200, "probe")
          ELSE IF ~ValidEnvelope(b) THEN Respond(@, InvalidRequestEnvelope(b), 400, "invalid")
          ELSE IF CacheServes(b)
            THEN Respond(@, CacheHitEnvelope(requestCache[getCacheKey(b)].response, b), 200, "cache")
          ELSE Respond(@, handleLocalMethod(b), 200, "local")]
     /\ requestCache' =
          IF ValidEnvelope(b) /\ ~CacheServes(b)
          THEN CacheAfter(IF Cardinality(DOMAIN requestCache) > CACHE_SWEEP_SIZE
                          THEN cleanCache(requestCache, now) ELSE requestCache,
                          ENABLE_CACHE, b, handleLocalMethod(b), now)
          ELSE requestCache
     /\ stats' =
          IF b.kind \in ParseRejected THEN CountFailed(stats)
          ELSE IF b.kind = "probe" THEN stats
          ELSE IF ~ValidEnvelope(b) THEN CountFailed(stats)
          ELSE IF CacheServes(b)
            THEN CountResponse(stats, CacheHitEnvelope(requestCache[getCacheKey(b)].response, b))
          ELSE CountResponse(stats, handleLocalMethod(b))
  /\ UNCHANGED <<cfgVars, pureVars, budget, currentIndex, endpointHealth, now, scanner, streak>>

\* body read, valid envelope, no cache hit, not local: proxyRequestWithRetry
\* picks the primary URL and proxyRequest runs up to its await fetch(...)
StartPrimary(c) ==
  /\ handler[c].pc = "reading"
  /\ LET b == handler[c].body
         pick == getNextRpcUrlSimple(RPC_URLS, endpointHealth, currentIndex) IN
     /\ ValidEnvelope(b)
     /\ ~CacheServes(b)
     /\ handleLocalMethod(b) = NoEnvelope
     /\ currentIndex' = pick.currentIndex
     /\ endpointHealth' = beginDispatch(endpointHealth, pick.url)
     /\ handler' = [handler EXCEPT ![c].pc = "dispatch", ![c].stage = "primary",
                                   ![c].primaryUrl = pick.url,
                                   ![c].inFlight = {[url |-> pick.url, phase |-> "fetch", since |-> now]},
                                   ![c].attempts = 1]
     /\ requestCache' = IF ENABLE_CACHE /\ Cardinality(DOMAIN requestCache) > CACHE_SWEEP_SIZE
                        THEN cleanCache(requestCache, now) ELSE requestCache
  /\ UNCHANGED <<cfgVars, stats, pureVars, budget, now, scanner, streak>>

\* failed dispatches in a row recorded for url (history)
StreakAfter(url, success) ==
  IF url \in DOMAIN streak
  THEN [streak EXCEPT ![url] = IF success THEN 0 ELSE @ + 1]
  ELSE streak

\* the upstream answers with 2xx headers: clearTimeout, then await response.json()
FetchOk(c) ==
  /\ \E d \in handler[c].inFlight :
       /\ d.phase = "fetch"
       /\ d.url \in DOMAIN endpointHealth
       /\ handler' = [handler EXCEPT ![c].inFlight =
                        (@ \ {d}) \cup {[url |-> d.url, phase |-> "body", since |-> d.since]}]
  /\ UNCHANGED <<cfgVars, stats, pureVars, budget, currentIndex, endpointHealth, now, scanner, streak, requestCache>>

\* a catch block that builds the synthetic envelope without recording a failure
ThrownUnrecorded(c, d, kind) ==
  /\ endpointHealth' = endDispatch(endpointHealth, d.url, TRUE)
  /\ streak' = streak
  /\ handler' = [handler EXCEPT ![c].inFlight = @ \ {d},
                                ![c].pc = "resumed",
                                ![c].completed = @ + 1,
                                ![c].recorded = "failure",
                                ![c].result = SyntheticError(handler[c].body, kind)]

\* the try block throws (kind): catch records a failure and builds the
\* synthetic envelope, finally releases the reservation
Thrown(c, d, kind) ==
  /\ endpointHealth' = endDispatch(updateEndpointHealth(endpointHealth, d.url, FALSE, now),
                                   d.url, TRUE)
  /\ streak' = StreakAfter(d.url, FALSE)
  /\ handler' = [handler EXCEPT ![c].inFlight = @ \ {d},
                                ![c].pc = "resumed",
                                ![c].completed = @ + 1,
                                ![c].recorded = "failure",
                                ![c].result = SyntheticError(handler[c].body, kind)]

\* await fetch rejects (connection error, abort at REQUEST_TIMEOUT) or the
\* response is not ok
FetchFail(c) ==
  /\ \E d \in handler[c].inFlight :
       /\ d.phase = "fetch"
       /\ \E kind \in (IF d.url \in DOMAIN endpointHealth
                       THEN {"http", "network", "timeout"} \cap workload.failures
                       ELSE {"network"}) :
            Thrown(c, d, kind)
  /\ UNCHANGED <<cfgVars, stats, pureVars, budget, currentIndex, now, scanner, requestCache>>

\* await response.json() rejects, or yields a non-object whose .error throws
BodyFail(c) ==
  /\ \E d \in handler[c].inFlight :
       /\ d.phase = "body"
       /\ \E kind \in {"parse", "type"} \cap workload.failures :
            Thrown(c, d, kind)
  /\ UNCHANGED <<cfgVars, stats, pureVars, budget, currentIndex, now, scanner, requestCache>>

\* await response.json() yields an object: classify, record health, normalise,
\* release the reservation
BodyOk(c) ==
  /\ \E d \in handler[c].inFlight :
       /\ d.phase = "body"
       /\ \E shape \in workload.upstream :
            LET data == UpstreamData(shape, handler[c].body)
                failed == Truthy(data.error) /\ isEndpointFailure(data.error) IN
            /\ endpointHealth' =
                 endDispatch(updateEndpointHealth(endpointHealth, d.url, ~failed, now),
                             d.url, FALSE)
            /\ streak' = StreakAfter(d.url, ~failed)
            /\ handler' = [handler EXCEPT ![c].inFlight = @ \ {d},
                                          ![c].pc = "resumed",
                                          ![c].completed = @ + 1,
                                          ![c].recorded = IF failed THEN "failure" ELSE "success",
                                          ![c].result = normalizeResponseFieldOrder(data)]
  /\ UNCHANGED <<cfgVars, stats, pureVars, budget, currentIndex, now, scanner, requestCache>>

\* the retry URLs proxyRequestWithRetry goes on with after the result r
RetryUrlsAfter(h, r) ==
  IF h.stage = "primary"
  THEN IF ShouldRetry(r, MAX_RETRY_ATTEMPTS)
       THEN getRetryRpcUrls(RPC_URLS, endpointHealth, h.primaryUrl, MAX_RETRY_ATTEMPTS)
       ELSE <<>>
  ELSE h.retryUrls

\* proxyRequestWithRetry resumes after await proxyRequest(...) with a result
\* that carries no error, or with nothing left to try: the handler caches a
\* response without error and responds
ResumeReturn(c) ==
  /\ handler[c].pc = "resumed"
  /\ ~handler[c].isBatch
  /\ LET h == handler[c]
         r == h.result IN
     /\ ~Truthy(r.error) \/ RetryUrlsAfter(h, r) = <<>>
     /\ handler' = [handler EXCEPT ![c] = Respond(@, r, 200, "proxy")]
     /\ requestCache' = CacheAfter(requestCache, ENABLE_CACHE, h.body, r, now)
     /\ stats' = CountResponse(stats, r)
  /\ UNCHANGED <<cfgVars, pureVars, budget, currentIndex, endpointHealth, now, scanner, streak>>

\* proxyRequestWithRetry resumes with a result that carries an error and moves
\* on to the next retry URL
ResumeRetry(c) ==
  /\ handler[c].pc = "resumed"
  /\ LET h == handler[c]
         r == h.result
         urls == RetryUrlsAfter(h, r)
         launch == IF urls = <<>> THEN <<>> ELSE RetryLaunch(urls) IN
     /\ Truthy(r.error)
     /\ urls # <<>>
     /\ endpointHealth' = BeginAll(endpointHealth, launch)
     /\ handler' = [handler EXCEPT ![c].pc = "dispatch", ![c].stage = "retry",
                                   ![c].lastError = r,
                                   ![c].retryUrls = SubSeq(urls, Len(launch) + 1, Len(urls)),
                                   ![c].inFlight = @ \cup {[url |-> launch[k], phase |-> "fetch", since |-> now] :
                                                             k \in 1..Len(launch)},
                                   ![c].attempts = @ + Len(launch)]
  /\ UNCHANGED <<cfgVars, stats, pureVars, budget, currentIndex, now, scanner, streak, requestCache>>

\* the for loop over the batch from the elements `rest` on, with the
\* responses pushed so far, up to the next await of an upstream dispatch:
\* an element without jsonrpc or method gets the Invalid Request envelope, a
\* local method its local answer; reading .jsonrpc of null throws
RECURSIVE BatchLoop(_, _)
BatchLoop(responses, rest) ==
  IF rest = <<>> THEN [outcome |-> "done", responses |-> responses, rest |-> rest]
  ELSE LET request == Head(rest) IN
       IF request.kind = "null"
         THEN [outcome |-> "throw", responses |-> responses, rest |-> rest]
       ELSE IF ~ValidEnvelope(request)
         THEN BatchLoop(Append(responses, InvalidRequestEnvelope(request)), Tail(rest))
       ELSE IF handleLocalMethod(request) # NoEnvelope
         THEN BatchLoop(Append(responses, handleLocalMethod(request)), Tail(rest))
       ELSE [outcome |-> "dispatch", responses |-> responses, rest |-> rest]

\* the batch handler of client c, its locals being those of h[c], goes on from
\* the loop state `loop`: it responds with the array, or with the Parse error
\* of the outer catch, or starts the primary dispatch of the next valid element
BatchGoOn(c, h, loop) ==
  IF loop.outcome = "done"
    THEN /\ handler' = [h EXCEPT ![c] =
                          [Respond(@, NoEnvelope, 200, "batch")
                             EXCEPT !.batchResponses = loop.responses, !.batchRest = <<>>]]
         /\ UNCHANGED <<stats, currentIndex, endpointHealth>>
  ELSE IF loop.outcome = "throw"
    THEN /\ handler' = [h EXCEPT ![c] =
                          [Respond(@, ParseErrorEnvelope, 400, "catch")
                             EXCEPT !.batchResponses = loop.responses, !.batchRest = loop.rest]]
         /\ stats' = CountFailed(stats)
         /\ UNCHANGED <<currentIndex, endpointHealth>>
  ELSE LET pick == getNextRpcUrlSimple(RPC_URLS, endpointHealth, currentIndex) IN
       /\ currentIndex' = pick.currentIndex
       /\ endpointHealth' = beginDispatch(endpointHealth, pick.url)
       /\ handler' = [h EXCEPT ![c].pc = "dispatch", ![c].stage = "primary",
                               ![c].body = Head(loop.rest),
                               ![c].batchRest = Tail(loop.rest),
                               ![c].batchResponses = loop.responses,
                               ![c].primaryUrl = pick.url,
                               ![c].retryUrls = <<>>,
                               ![c].result = NoEnvelope,
                               ![c].lastError = NoEnvelope,
                               ![c].inFlight = {[url |-> pick.url, phase |-> "fetch", since |-> now]},
                               ![c].attempts = @ + 1]
       /\ UNCHANGED stats

\* body read and parsed to an array: the batch loop runs up to its first
\* upstream dispatch
StartBatch(c) ==
  /\ handler[c].pc = "reading"
  /\ handler[c].body.kind = "batch"
  /\ BatchGoOn(c, [handler EXCEPT ![c].isBatch = TRUE, ![c].batch = handler[c].body.elements],
               BatchLoop(<<>>, handler[c].body.elements))
  /\ UNCHANGED <<cfgVars, pureVars, budget, now, scanner, streak, requestCache>>

\* proxyRequestWithRetry returns to the batch loop: the response is pushed
\* and the loop goes on with the next element
BatchReturn(c) ==
  /\ handler[c].pc = "resumed"
  /\ handler[c].isBatch
  /\ LET h == handler[c]
         r == h.result IN
     /\ ~Truthy(r.error) \/ RetryUrlsAfter(h, r) = <<>>
     /\ BatchGoOn(c, handler, BatchLoop(Append(h.batchResponses, r), h.batchRest))
  /\ UNCHANGED <<cfgVars, pureVars, budget, now, scanner, streak, requestCache>>

\* the response has been written; the connection slot is free again
Close(c) ==
  /\ handler[c].pc = "done"
  /\ handler[c].inFlight = {}
  /\ handler' = [handler EXCEPT ![c] = IdleHandler]
  /\ UNCHANGED <<cfgVars, stats, pureVars, budget, currentIndex, endpointHealth, now, scanner, streak, requestCache>>

\* ---------------------------------------------------------- recovery scanner
IdleScanner == [pc |-> "idle", endpoint |-> NoUrl, rest |-> <<>>, since |-> 0]

\* Array.from(endpointHealth.values()).filter(h => !h.isHealthy)
RECURSIVE UnhealthyFrom(_, _, _)
UnhealthyFrom(urls, eh, k) ==
  IF k > Len(urls) THEN <<>>
  ELSE (IF ~eh[urls[k]].isHealthy THEN <<urls[k]>> ELSE <<>>) \o UnhealthyFrom(urls, eh, k + 1)

\* endpoint.lastFailure ? round((Date.now() - lastFailure) / 1000) : 0
TimeSinceFailure(eh, url, t) ==
  IF eh[url].lastFailure # -1 THEN t - eh[url].lastFailure ELSE 0

\* for (const endpoint of unhealthyEndpoints): runs until the next await fetch
RECURSIVE ScanLoop(_, _, _)
ScanLoop(rest, eh, t) ==
  IF rest = <<>> THEN IdleScanner
  ELSE IF TimeSinceFailure(eh, Head(rest), t) > RECOVERY_AGE_S
    THEN [pc |-> "fetch", endpoint |-> Head(rest), rest |-> Tail(rest), since |-> t]
    ELSE ScanLoop(Tail(rest), eh, t)

\* a recovery that clears the failure count and keeps the flag
recoverEndpointCountOnly(eh, url) ==
  [eh EXCEPT ![url].consecutiveFailures = 0]

\* a recovery that sets the flag and keeps the failure count
recoverEndpointFlagOnly(eh, url) ==
  [eh EXCEPT ![url].isHealthy = TRUE]

\* endpoint.isHealthy = true; endpoint.consecutiveFailures = 0
recoverEndpoint(eh, url) ==
  [eh EXCEPT ![url].isHealthy = TRUE, ![url].consecutiveFailures = 0]

\* !data.error || !isEndpointFailure(data.error)
ProbeRecovers(data) == ~Truthy(data.error) \/ ~isEndpointFailure(data.error)

ProbeRequest == [kind |-> "envelope", jsonrpc |-> TRUE, method |-> "eth_blockNumber", id |-> "1"]

\* an await fetch(...) is aborted by its timer (REQUEST_TIMEOUT 6 s, probe 5 s)
\* well within one timer interval: none that began before time t is pending
NoFetchOlderThan(t) ==
  /\ \A c \in DOMAIN handler : \A d \in handler[c].inFlight : d.phase = "fetch" => d.since >= t
  /\ \A s \in DOMAIN scanner : scanner[s].pc = "fetch" => scanner[s].since >= t

\* the 30 s timer fires: the clock moves on and, when a callback instance is
\* free, it takes its snapshot and runs up to its first probe
TimerFire ==
  /\ now < MaxTicks * SCAN_INTERVAL_S
  /\ NoFetchOlderThan(now)
  /\ now' = now + SCAN_INTERVAL_S
  /\ IF \E s \in DOMAIN scanner : scanner[s].pc = "idle"
     THEN LET s == CHOOSE i \in DOMAIN scanner : scanner[i].pc = "idle" IN
          scanner' = [scanner EXCEPT ![s] =
                        ScanLoop(UnhealthyFrom(RPC_URLS, endpointHealth, 1), endpointHealth, now')]
     ELSE UNCHANGED scanner
  /\ UNCHANGED <<cfgVars, stats, pureVars, budget, currentIndex, endpointHealth, handler, streak, requestCache>>

\* the probed upstream answers with 2xx headers
ProbeFetchOk(s) ==
  /\ scanner[s].pc = "fetch"
  /\ scanner' = [scanner EXCEPT ![s].pc = "body"]
  /\ UNCHANGED <<cfgVars, stats, pureVars, budget, currentIndex, endpointHealth, now, handler, streak, requestCache>>

\* the probe is rejected, aborted after 5 s, answered non-2xx, or its body
\* does not parse: the endpoint is left as it is and the loop goes on
ProbeFail(s) ==
  /\ scanner[s].pc \in {"fetch", "body"}
  /\ scanner[s].endpoint \notin workload.steady
  /\ scanner' = [scanner EXCEPT ![s] = ScanLoop(scanner[s].rest, endpointHealth, now)]
  /\ UNCHANGED <<cfgVars, stats, pureVars, budget, currentIndex, endpointHealth, now, handler, streak, requestCache>>

\* the probe body arrives
ProbeBodyOk(s) ==
  /\ scanner[s].pc = "body"
  /\ \E shape \in workload.upstream :
       LET e == scanner[s].endpoint
           recovers == ProbeRecovers(UpstreamData(shape, ProbeRequest)) IN
       /\ e \in workload.steady => recovers
       /\ endpointHealth' = IF recovers THEN recoverEndpoint(endpointHealth, e) ELSE endpointHealth
       /\ streak' = IF recovers /\ ~endpointHealth[e].isHealthy
                    THEN [streak EXCEPT ![e] = 0] ELSE streak
       /\ scanner' = [scanner EXCEPT ![s] = ScanLoop(scanner[s].rest, endpointHealth', now)]
  /\ UNCHANGED <<cfgVars, stats, pureVars, budget, currentIndex, now, handler, requestCache>>

\* ------------------------------------------------------------ specification
Clients == 1..NumClients

\* the URL lists <<1, ..., n>> with n in lo..hi
UrlLists(lo, hi) == {[k \in 1..n |-> k] : n \in lo..hi}

NotClassified == [error |-> NoError, label |-> "none"]

\* the configuration read from the environment, and the client workload
Configured(urls, retries, cache, w, requests) ==
  /\ RPC_URLS = urls
  /\ MAX_RETRY_ATTEMPTS = retries
  /\ ENABLE_CACHE = cache
  /\ workload = w
  /\ budget = requests

\* no request is being handled and no scan is running
Quiet ==
  /\ requestCache = <<>>
  /\ stats = ZeroStats
  /\ now = 0
  /\ handler = [c \in Clients |-> IdleHandler]
  /\ scanner = [s \in 1..NumScanners |-> IdleScanner]

\* the state after the module of server.ts has been evaluated, for a
\* configuration (urls, retries, cache) and a client workload
Start(urls, retries, cache, w, requests) ==
  /\ Configured(urls, retries, cache, w, requests)
  /\ Quiet
  /\ currentIndex = 0
  /\ endpointHealth = InitialHealth(urls)
  /\ streak = [u \in DOMAIN InitialHealth(urls) |-> 0]
  /\ classified = NotClassified
  /\ pickLog = <<>>

NextClients ==
  \/ \E c \in Clients : Receive(c)
  \/ \E c \in Clients : HandleFraming(c)
  \/ \E c \in Clients : StartPrimary(c)
  \/ \E c \in Clients : FetchOk(c)
  \/ \E c \in Clients : FetchFail(c)
  \/ \E c \in Clients : BodyFail(c)
  \/ \E c \in Clients : BodyOk(c)
  \/ \E c \in Clients : ResumeReturn(c)
  \/ \E c \in Clients : ResumeRetry(c)
  \/ \E c \in Clients : Close(c)

NextScanner ==
  \/ TimerFire
  \/ \E s \in 1..NumScanners : ProbeFetchOk(s)
  \/ \E s \in 1..NumScanners : ProbeFail(s)
  \/ \E s \in 1..NumScanners : ProbeBodyOk(s)

Next == NextClients \/ NextScanner

\* the runs without the recovery timer: NumClients concurrent clients sending
\* MaxRequests requests, or one client sending MaxSeqRequests requests
ClientLoads == {[clients |-> NumClients, requests |-> MaxRequests],
                [clients |-> 1, requests |-> MaxSeqRequests]}

\* every exit path of a dispatch
InitDispatch ==
  \E urls \in UrlLists(0, MaxUrlsDispatch), retries \in 0..MaxRetryDispatch, load \in ClientLoads :
    Start(urls, retries, FALSE,
          [ids |-> {"1"}, clients |-> load.clients, methods |-> {"eth_call", "eth_chainId"},
           upstream |-> {"result", "appError", "epError"},
           failures |-> {"http", "network", "timeout", "parse"}, framing |-> FALSE, batches |-> {}, steady |-> {}],
          load.requests)

SpecDispatch == InitDispatch /\ [][NextClients]_vars

\* up to MaxUrls endpoints and MaxRetryCfg retries
InitRetry ==
  \E urls \in UrlLists(0, MaxUrls), retries \in 0..MaxRetryCfg, load \in ClientLoads :
    Start(urls, retries, FALSE,
          [ids |-> {"1"}, clients |-> load.clients, methods |-> {"eth_call", "eth_chainId"},
           upstream |-> {"result", "epError"}, failures |-> {"timeout", "parse"},
           framing |-> FALSE, batches |-> {}, steady |-> {}],
          load.requests)

SpecRetry == InitRetry /\ [][NextClients]_vars

\* one client, a long run of requests, the recovery timer and scanner
InitRecovery ==
  \E urls \in UrlLists(1, 2) :
    Start(urls, 1, FALSE,
          [ids |-> {"1"}, clients |-> 1, methods |-> {"eth_call", "eth_chainId"},
           upstream |-> {"result", "epError"}, failures |-> {"timeout", "parse"},
           framing |-> FALSE, batches |-> {}, steady |-> {}],
          IF Len(urls) = 1 THEN MaxStreakRequests ELSE MaxRecoveryRequests)

SpecRecovery == InitRecovery /\ [][Next]_vars

\* one client sending every kind of body with every kind of id, upstreams
\* answering with every shape of body, the cache on or off
InitIntake ==
  \E urls \in UrlLists(0, MaxUrlsDispatch), retries \in 0..MaxRetryDispatch, cache \in BOOLEAN :
    Start(urls, retries, cache,
          [ids |-> AllIds \cup {"undefined"}, clients |-> 1,
           methods |-> {"eth_call", "eth_chainId", "net_version"},
           upstream |-> UpstreamShapes, failures |-> ThrowKinds, framing |-> TRUE, batches |-> {}, steady |-> {}],
          MaxIntakeRequests)

SpecIntake == InitIntake /\ [][NextClients]_vars

\* no clients and no upstreams: the workload of the runs of a pure function
NoWorkload ==
  [ids |-> {}, clients |-> 0, methods |-> {}, upstream |-> {}, failures |-> {}, framing |-> FALSE, batches |-> {}, steady |-> {}]

\* the tokens the error texts given to the classifier are made of
ProbeTokens == {"gas", "rate", "limit", " ", "timeout", "execution", "reverted", "nonce"}

Texts(maxLen) == UNION {[1..n -> ProbeTokens] : n \in 0..maxLen}

\* the values of a JSON-RPC error member: absent, a string, an object with a
\* message, an object with data only, an object with a code only
ErrorValues ==
  {NoError}
  \cup {StrError(t) : t \in Texts(MaxTextLen)}
  \cup {ObjError("-32000", t, <<>>) : t \in Texts(MaxTextLen) \ {<<>>}}
  \cup {ObjError("-32000", <<>>, t) : t \in Texts(MaxTextLen) \ {<<>>}}
  \cup {ObjError(c, <<>>, <<>>) : c \in {"-32000", "429"}}

\* isEndpointFailure(error) is called on the chosen error value
Classify ==
  /\ classified.label = "none"
  /\ classified' = [classified EXCEPT !.label = IF isEndpointFailure(classified.error)
                                                 THEN "endpoint-failure"
                                                 ELSE "application-rpc-error"]
  /\ UNCHANGED <<cfgVars, stats, budget, currentIndex, endpointHealth, requestCache, now, handler,
                 scanner, streak, pickLog>>

InitClassifier ==
  /\ Configured(<<>>, 0, FALSE, NoWorkload, 0)
  /\ Quiet
  /\ currentIndex = 0
  /\ endpointHealth = InitialHealth(<<>>)
  /\ streak = <<>>
  /\ pickLog = <<>>
  /\ \E e \in ErrorValues : classified = [error |-> e, label |-> "none"]

SpecClassifier == InitClassifier /\ [][Classify]_vars

\* a health table in which every endpoint is healthy and idle, having failed
\* fewer than three times in a row
HealthyIdleTables(urls) ==
  {[u \in DOMAIN InitialHealth(urls) |->
      [isHealthy |-> TRUE, consecutiveFailures |-> f[u],
       lastFailure |-> IF f[u] > 0 THEN 0 ELSE -1,
       activeRequests |-> 0, totalRequests |-> f[u], totalFailures |-> f[u]]] :
   f \in [DOMAIN InitialHealth(urls) -> 0..(UNHEALTHY_THRESHOLD - 1)]}

\* getNextRpcUrlSimple() is called for one more primary pick
Pick ==
  /\ budget > 0
  /\ budget' = budget - 1
  /\ LET pick == getNextRpcUrlSimple(RPC_URLS, endpointHealth, currentIndex) IN
       /\ pickLog' = Append(pickLog, pick.url)
       /\ currentIndex' = pick.currentIndex
  /\ UNCHANGED <<cfgVars, stats, endpointHealth, requestCache, now, handler, scanner,
                 streak, classified>>

InitRoundRobin ==
  \E urls \in UrlLists(1, MaxUrls) :
    /\ Configured(urls, 0, FALSE, NoWorkload, MaxPicks)
    /\ Quiet
    /\ currentIndex \in 0..(Len(urls) - 1)
    /\ endpointHealth \in HealthyIdleTables(urls)
    /\ streak = [u \in DOMAIN InitialHealth(urls) |-> endpointHealth[u].consecutiveFailures]
    /\ classified = NotClassified
    /\ pickLog = <<>>

SpecRoundRobin == InitRoundRobin /\ [][Pick]_vars

\* an entry of the health table as the selector reads it: healthy or not
\* (three failures in a row), with any load up to the capacity
SelectorEntries ==
  {[isHealthy |-> h, consecutiveFailures |-> IF h THEN 0 ELSE UNHEALTHY_THRESHOLD,
    lastFailure |-> IF h THEN -1 ELSE 0, activeRequests |-> a,
    totalRequests |-> IF h THEN 0 ELSE UNHEALTHY_THRESHOLD,
    totalFailures |-> IF h THEN 0 ELSE UNHEALTHY_THRESHOLD] :
   h \in BOOLEAN, a \in 0..MAX_CONCURRENT_REQUESTS}

\* between two picks dispatches begin and end, outcomes are recorded and the
\* scanner recovers endpoints: the entry of one endpoint changes
HealthChange ==
  /\ \E url \in DOMAIN endpointHealth : \E e \in SelectorEntries :
       /\ e # endpointHealth[url]
       /\ endpointHealth' = [endpointHealth EXCEPT ![url] = e]
  /\ UNCHANGED <<cfgVars, stats, pureVars, budget, currentIndex, requestCache, now, handler, scanner,
                 streak>>

\* the selector under every health and load of the endpoints
InitSelector ==
  \E urls \in UrlLists(1, MaxUrls) :
    /\ Configured(urls, 0, FALSE, NoWorkload, MaxSelectorPicks)
    /\ Quiet
    /\ currentIndex \in 0..(Len(urls) - 1)
    /\ endpointHealth \in [DOMAIN InitialHealth(urls) -> SelectorEntries]
    /\ streak = [u \in DOMAIN InitialHealth(urls) |-> endpointHealth[u].consecutiveFailures]
    /\ classified = NotClassified
    /\ pickLog = <<>>

NextSelector == Pick \/ HealthChange

\* the tables of idle endpoints, each healthy or unhealthy
IdleTables(urls) ==
  [DOMAIN InitialHealth(urls) -> {e \in SelectorEntries : e.activeRequests = 0}]

\* one client sending local and forwarded methods to 0..MaxUrlsDispatch
\* upstreams in any health state, the cursor anywhere, the cache on or off
InitShortcut ==
  \E urls \in UrlLists(0, MaxUrlsDispatch), retries \in 0..MaxRetryDispatch, cache \in BOOLEAN :
    /\ Configured(urls, retries, cache,
                  [ids |-> {"1", "0"}, clients |-> 1,
                   methods |-> {"eth_call", "eth_chainId", "net_version"},
                   upstream |-> {"result", "epError"}, failures |-> {"network", "parse"},
                   framing |-> FALSE, batches |-> {}, steady |-> {}],
                  MaxShortcutRequests)
    /\ Quiet
    /\ currentIndex \in 0..(IF urls = <<>> THEN 0 ELSE Len(urls) - 1)
    /\ endpointHealth \in IdleTables(urls)
    /\ streak = [url \in DOMAIN endpointHealth |-> endpointHealth[url].consecutiveFailures]
    /\ classified = NotClassified
    /\ pickLog = <<>>

SpecShortcut == InitShortcut /\ [][NextClients]_vars

\* NumClients concurrent clients sending the same cacheable request, the
\* cache enabled
InitCache ==
  \E urls \in UrlLists(1, MaxUrlsDispatch), retries \in 0..MaxRetryDispatch :
    Start(urls, retries, TRUE,
          [ids |-> {"1", "\"a\""}, clients |-> NumClients, methods |-> {"eth_call", "eth_chainId"},
           upstream |-> {"result", "appError"}, failures |-> {"network", "parse"},
           framing |-> FALSE, batches |-> {}, steady |-> {}],
          MaxCacheRequests)

SpecCache == InitCache /\ [][NextClients]_vars

\* the pending await fetch of a request handler ends: answered, rejected or
\* aborted by the REQUEST_TIMEOUT timer
FetchEnds == \E c \in Clients : FetchOk(c) \/ FetchFail(c)

\* the pending await fetch of a probe ends: answered, rejected or aborted by
\* the 5 s timer
ProbeFetchEnds == \E s \in 1..NumScanners : scanner[s].pc = "fetch" /\ (ProbeFetchOk(s) \/ ProbeFail(s))

\* the body of a probe answered by a steady upstream arrives
SteadyProbeBodyEnds ==
  \E s \in 1..NumScanners : scanner[s].endpoint \in workload.steady /\ ProbeBodyOk(s)

\* two upstreams, each steady (answering every probe with a result) or not,
\* one client, the recovery timer and scanner
InitRecoveryLive ==
  \E steady \in SUBSET {1, 2} :
    Start(<<1, 2>>, 1, FALSE,
          [ids |-> {"1"}, clients |-> 1, methods |-> {"eth_call", "eth_chainId"},
           upstream |-> {"result", "epError"}, failures |-> {"timeout", "parse"},
           framing |-> FALSE, batches |-> {}, steady |-> steady],
          MaxLiveRequests)

\* the timer keeps firing, a pending fetch ends by its abort timer at the
\* latest, and a steady upstream delivers the body of its probe answer
SpecRecoveryLive ==
  /\ InitRecoveryLive
  /\ [][Next]_vars
  /\ WF_vars(TimerFire)
  /\ WF_vars(FetchEnds)
  /\ WF_vars(ProbeFetchEnds)
  /\ WF_vars(SteadyProbeBodyEnds)

\* the request handlers with the batch path
NextBatch == NextClients \/ \E c \in Clients : StartBatch(c) \/ BatchReturn(c)

\* one client sending single requests and batches of up to MaxBatchLen
\* elements of every kind
InitBatch ==
  \E urls \in UrlLists(1, MaxUrlsDispatch), retries \in 0..MaxRetryDispatch :
    Start(urls, retries, FALSE,
          [ids |-> {"1", "\"a\""}, clients |-> 1, methods |-> {"eth_call", "eth_chainId"},
           upstream |-> {"result", "epError"}, failures |-> {"network", "parse"},
           framing |-> FALSE, batches |-> 0..MaxBatchLen, steady |-> {}],
          MaxBatchRequests)

SpecBatch == InitBatch /\ [][NextBatch]_vars

SpecSelector == InitSelector /\ [][NextSelector]_vars

\* process.env.RPC_URLS.split(","): any list of up to hi entries, an entry
\* may be written more than once
EnvUrlLists(hi) == UNION {[1..n -> 1..hi] : n \in 0..hi}

\* getRetryRpcUrls(failedUrl, MAX_RETRY_ATTEMPTS) is called for a failed URL;
\* the handler keeps the list in retryUrls
RetryPicks ==
  /\ budget > 0
  /\ budget' = budget - 1
  /\ \E failedUrl \in 1..MaxUrls :
       handler' = [handler EXCEPT
                     ![1].primaryUrl = failedUrl,
                     ![1].retryUrls = getRetryRpcUrls(RPC_URLS, endpointHealth, failedUrl,
                                                      MAX_RETRY_ATTEMPTS)]
  /\ UNCHANGED <<cfgVars, stats, pureVars, currentIndex, endpointHealth, requestCache, now,
                 scanner, streak>>

\* the retry selection under every configured list, health and load
InitRetryPicks ==
  \E urls \in EnvUrlLists(MaxUrls), retries \in 0..MaxRetryCfg :
    /\ Configured(urls, retries, FALSE, NoWorkload, MaxRetryPickCalls)
    /\ Quiet
    /\ currentIndex = 0
    /\ endpointHealth \in [DOMAIN InitialHealth(urls) -> SelectorEntries]
    /\ streak = [u \in DOMAIN InitialHealth(urls) |-> endpointHealth[u].consecutiveFailures]
    /\ classified = NotClassified
    /\ pickLog = <<>>

NextRetryPicks == RetryPicks \/ HealthChange

SpecRetryPicks == InitRetryPicks /\ [][NextRetryPicks]_vars

\* two clients and the recovery scanner over two upstreams, each healthy or
\* unhealthy (three failed dispatches at time 0) when the run begins
InitScan ==
  /\ Configured(<<1, 2>>, 1, FALSE,
                [ids |-> {"1"}, clients |-> NumClients, methods |-> {"eth_call", "eth_chainId"},
                 upstream |-> {"result", "epError"}, failures |-> {"timeout", "parse"},
                 framing |-> FALSE, batches |-> {}, steady |-> {}],
                MaxScanRequests)
  /\ Quiet
  /\ currentIndex = 0
  /\ endpointHealth \in IdleTables(<<1, 2>>)
  /\ streak = [url \in DOMAIN endpointHealth |-> endpointHealth[url].consecutiveFailures]
  /\ classified = NotClassified
  /\ pickLog = <<>>

SpecScan == InitScan /\ [][Next]_vars

\* one client, the cache on or off, and the clock: entries outlive CACHE_TTL
InitCacheClock ==
  \E cache \in BOOLEAN :
    Start(<<1, 2>>, 1, cache,
          [ids |-> {"1", "\"a\""}, clients |-> 1, methods |-> {"eth_call", "eth_chainId"},
           upstream |-> {"result", "appError"}, failures |-> {"network", "parse"},
           framing |-> FALSE, batches |-> {}, steady |-> {}],
          MaxCacheClockRequests)

NextCacheClock == NextClients \/ TimerFire

SpecCacheClock == InitCacheClock /\ [][NextCacheClock]_vars

\* two concurrent clients over three healthy idle upstreams, each of which
\* has failed fewer than three times in a row before the run begins
InitRetryRace ==
  /\ Configured(<<1, 2, 3>>, MaxRetryCfg, FALSE,
                [ids |-> {"1"}, clients |-> NumClients, methods |-> {"eth_call", "eth_chainId"},
                 upstream |-> {"result"}, failures |-> {"timeout", "parse"},
                 framing |-> FALSE, batches |-> {}, steady |-> {}],
                MaxRaceRequests)
  /\ Quiet
  /\ currentIndex = 0
  /\ endpointHealth \in HealthyIdleTables(<<1, 2, 3>>)
  /\ streak = [url \in DOMAIN endpointHealth |-> endpointHealth[url].consecutiveFailures]
  /\ classified = NotClassified
  /\ pickLog = <<>>

SpecRetryRace == InitRetryRace /\ [][NextClients]_vars

\* --------------------------------------------------------------- properties
\* dispatches of client c in flight to url
InFlightOf(c, url) == Cardinality({d \in handler[c].inFlight : d.url = url})

RECURSIVE InFlightTo(_, _)
InFlightTo(url, c) == IF c = 0 THEN 0 ELSE InFlightOf(c, url) + InFlightTo(url, c - 1)

\* C1 (P1, balance): in every reachable state activeRequests[url] equals the
\* number of dispatches in flight to url, on every exit path of a dispatch;
\* so it is never negative and is back at its starting value 0 once the
\* dispatches to url have completed.
C1_Balance ==
  \A url \in DOMAIN endpointHealth :
    /\ endpointHealth[url].activeRequests = InFlightTo(url, NumClients)
    /\ endpointHealth[url].activeRequests >= 0

\* two dispatches to one URL have both ended, one through the catch block
\* (deadline elapse) and one with a body, and the count is back at 0
C1_Witness ==
  \E url \in DOMAIN endpointHealth :
    /\ endpointHealth[url].activeRequests = 0
    /\ endpointHealth[url].totalRequests >= 2
    /\ endpointHealth[url].totalFailures >= 1
    /\ endpointHealth[url].totalFailures < endpointHealth[url].totalRequests
    /\ \E c \in Clients : /\ handler[c].pc = "resumed"
                          /\ handler[c].result.error.code = "-32050"
                          /\ handler[c].inFlight = {}

\* C2 (P3, unhealthy threshold): an endpoint is unhealthy exactly when it has
\* recorded three or more failed dispatches in a row since it was last healthy
\* with a clean record (no successful dispatch in between), also when
\* dispatches interleave with the recovery scanner.
C2_UnhealthyIffThreeFailures ==
  \A url \in DOMAIN endpointHealth :
    endpointHealth[url].isHealthy <=> streak[url] < UNHEALTHY_THRESHOLD

\* C3 (P2): a recorded dispatch failure adds exactly 1 to consecutiveFailures,
\* a recorded dispatch success sets it to 0, and no step lowers it to a value
\* other than 0.
C3_FailureStreakCounter ==
  [][\A url \in DOMAIN endpointHealth :
       /\ endpointHealth'[url].totalFailures = endpointHealth[url].totalFailures + 1
            => endpointHealth'[url].consecutiveFailures = endpointHealth[url].consecutiveFailures + 1
       /\ (/\ endpointHealth'[url].totalRequests = endpointHealth[url].totalRequests + 1
           /\ endpointHealth'[url].totalFailures = endpointHealth[url].totalFailures)
            => endpointHealth'[url].consecutiveFailures = 0
       /\ endpointHealth'[url].consecutiveFailures < endpointHealth[url].consecutiveFailures
            => endpointHealth'[url].consecutiveFailures = 0]_vars

\* two failures followed by the first success: the counter is back at 0
C3_Witness ==
  \E url \in DOMAIN endpointHealth :
    /\ endpointHealth[url].totalRequests = 3
    /\ endpointHealth[url].totalFailures = 2
    /\ endpointHealth[url].consecutiveFailures = 0
    /\ endpointHealth[url].lastFailure # -1

\* C4 (P6, retry bound): a client request makes at most 1 + MAX_RETRY_ATTEMPTS
\* upstream dispatches, and exactly 1 when MAX_RETRY_ATTEMPTS = 0.
C4_RetryBound ==
  \A c \in Clients :
    /\ handler[c].attempts <= 1 + MAX_RETRY_ATTEMPTS
    /\ (MAX_RETRY_ATTEMPTS = 0 /\ handler[c].pc = "done" /\ handler[c].source = "proxy")
         => handler[c].attempts = 1

\* the bound is what stopped the request: one retry allowed, three URLs
\* configured, and the request ended in an error after two dispatches
C4_Witness ==
  \E c \in Clients :
    /\ MAX_RETRY_ATTEMPTS = 1
    /\ Len(RPC_URLS) = 3
    /\ handler[c].pc = "done"
    /\ handler[c].attempts = 2
    /\ Truthy(handler[c].response.error)
    /\ \A url \in DOMAIN endpointHealth :
         endpointHealth[url].isHealthy /\ endpointHealth[url].activeRequests = 0

\* C5: when the primary dispatch returns an upstream error that the
\* classifier labels application-rpc-error (the dispatch is recorded as a
\* success), the request makes no further dispatch and that envelope is the
\* response.
C5_NoRetryOfApplicationErrors ==
  [][\A c \in Clients :
       (/\ handler[c].pc = "resumed"
        /\ handler[c].stage = "primary"
        /\ Truthy(handler[c].result.error)
        /\ handler[c].recorded = "success"
        /\ handler'[c] # handler[c])
       => /\ handler'[c].pc = "done"
          /\ handler'[c].attempts = 1
          /\ handler'[c].response = handler[c].result]_vars

\* C6: a client request has at most one dispatch in flight at any moment; the
\* primary completes before a retry starts, and each retry starts only after
\* the dispatch before it has returned an envelope carrying an error.
C6_SequentialRetries ==
  \A c \in Clients :
    /\ Cardinality(handler[c].inFlight) <= 1
    /\ handler[c].attempts = handler[c].completed + Cardinality(handler[c].inFlight)
    /\ handler[c].stage = "primary" => handler[c].attempts = 1
    /\ (handler[c].attempts >= 2 /\ handler[c].inFlight # {})
         => /\ handler[c].stage = "retry"
            /\ Truthy(handler[c].lastError.error)

\* the second retry of a request is in flight
C6_Witness ==
  \E c \in Clients : handler[c].attempts = 3 /\ handler[c].inFlight # {}

\* C7 (P4, id preservation): the response to a request with id x (a number, a
\* string or null, 0 and "" included) has id x, whether it comes from the
\* local shortcut, an upstream, the catch block of the dispatcher, the cache
\* or the Invalid Request rejection; only the answer to unparseable input
\* has id null.
C7_IdPreservation ==
  \A c \in Clients :
    (/\ handler[c].pc = "done"
     /\ handler[c].source \in {"local", "proxy", "cache", "invalid"}
     /\ handler[c].body.id \in AllIds)
    => handler[c].response.id = handler[c].body.id

\* C8 (P5, field order): every /rpc response body lists the keys jsonrpc, id
\* and then result or error, in this order.
C8_FieldOrder ==
  \A c \in Clients :
    handler[c].pc = "done"
    => handler[c].response.keys \in {<<"jsonrpc", "id", "result">>, <<"jsonrpc", "id", "error">>}

\* the keys of a response body are some of jsonrpc, id, result, error, each
\* at most once and in this relative order, with jsonrpc first
PresentKeysInOrder ==
  \A c \in Clients :
    handler[c].pc = "done"
    => handler[c].response.keys \in
         {<<"jsonrpc", "id", "result">>, <<"jsonrpc", "id", "error">>, <<"jsonrpc", "id">>,
          <<"jsonrpc", "result">>, <<"jsonrpc", "error">>, <<"jsonrpc">>}

\* the reduced string of the classified error matches a pattern of the list
MatchesSome(patterns) ==
  \E k \in 1..Len(patterns) : PatternTest(patterns[k], ErrorStr(classified.error))

\* C9 (P7, classifier order): an error whose reduced string matches a
\* normal-RPC pattern is labelled application-rpc-error even if it matches
\* endpoint-failure patterns too; it is labelled endpoint-failure only if it
\* matches no normal-RPC pattern and some endpoint-failure pattern; an error
\* matching neither list is labelled application-rpc-error.
C9_ClassifierOrder ==
  (classified.label # "none" /\ Truthy(classified.error))
  => /\ MatchesSome(NORMAL_RPC_ERROR_PATTERNS) => classified.label = "application-rpc-error"
     /\ classified.label = "endpoint-failure"
          => (~MatchesSome(NORMAL_RPC_ERROR_PATTERNS) /\ MatchesSome(ENDPOINT_FAILURE_PATTERNS))
     /\ (~MatchesSome(NORMAL_RPC_ERROR_PATTERNS) /\ ~MatchesSome(ENDPOINT_FAILURE_PATTERNS))
          => classified.label = "application-rpc-error"

\* an error text matching both lists ("gas limit" and "timeout") has been
\* labelled application-rpc-error
C9_Witness ==
  /\ classified.label = "application-rpc-error"
  /\ Truthy(classified.error)
  /\ MatchesSome(NORMAL_RPC_ERROR_PATTERNS)
  /\ MatchesSome(ENDPOINT_FAILURE_PATTERNS)

\* times url occurs among picks i..j of the log
PicksOf(url, i, j) == Cardinality({k \in i..j : pickLog[k] = url})

\* C10 (P8, round-robin fairness): with N endpoints, all healthy and idle,
\* in any K consecutive primary picks from any cursor position each URL is
\* picked floor(K/N) or ceil(K/N) times.
C10_RoundRobinFairness ==
  \A i \in 1..Len(pickLog) : \A j \in i..Len(pickLog) :
    \A url \in DOMAIN endpointHealth :
      LET K == j - i + 1
          N == Len(RPC_URLS) IN
      PicksOf(url, i, j) \in {K \div N, (K + N - 1) \div N}

\* seven picks over three endpoints starting from the middle of the list:
\* the first URL has been picked twice, the second three times
C10_Witness ==
  /\ Len(RPC_URLS) = 3
  /\ Len(pickLog) = 7
  /\ pickLog[1] = 2
  /\ PicksOf(1, 1, 7) = 2
  /\ PicksOf(2, 1, 7) = 3

\* C11: when a primary pick returns the URL of the primary pick before it,
\* no other configured endpoint is healthy with activeRequests below
\* MAX_CONCURRENT_REQUESTS at the time of that second pick, whatever happened
\* to health and load between the two picks.
C11_NoRepeatWhileAlternatives ==
  [][(/\ pickLog # <<>>
      /\ pickLog' # pickLog
      /\ pickLog'[Len(pickLog')] = pickLog[Len(pickLog)])
     => \A url \in DOMAIN endpointHealth :
          url # pickLog[Len(pickLog)] => ~Accepts(endpointHealth, url)]_vars

\* C12 (backpressure): a dispatch is started against an endpoint whose
\* activeRequests is already at MAX_CONCURRENT_REQUESTS or above only by a
\* primary pick that ended in the least-loaded fallback; so without that
\* fallback activeRequests never exceeds MAX_CONCURRENT_REQUESTS.
C12_Backpressure ==
  [][\A url \in DOMAIN endpointHealth :
       (/\ endpointHealth'[url].activeRequests > endpointHealth[url].activeRequests
        /\ endpointHealth[url].activeRequests >= MAX_CONCURRENT_REQUESTS)
       => \E c \in Clients :
            /\ handler[c].pc = "reading"
            /\ handler'[c].pc = "dispatch"
            /\ handler'[c].primaryUrl = url
            /\ getNextRpcUrlSimple(RPC_URLS, endpointHealth, currentIndex).fallback]_vars

\* the dispatch of client c that the step completes
Completing(c) == CHOOSE d \in handler[c].inFlight : d \notin handler'[c].inFlight

C14_AttemptDeadline ==
  \A c \in Clients : \A d \in handler[c].inFlight :
    now - d.since - SCAN_INTERVAL_S < REQUEST_TIMEOUT_S

\* the methods handleLocalMethod answers
LocalMethods == {"eth_chainId", "net_version"}

\* C15 (local shortcut): a request with method eth_chainId is answered with
\* result ARBITRUM_CHAIN_ID_HEX and one with method net_version with the
\* decimal chain id as a string, for any number of upstreams (zero too) and
\* any health state, without a dispatch and with the health table and the
\* round-robin cursor unchanged.
C15_LocalShortcut ==
  [][\A c \in Clients :
       (/\ handler[c].pc = "reading"
        /\ ValidEnvelope(handler[c].body)
        /\ handler[c].body.method \in LocalMethods
        /\ handler'[c] # handler[c])
       => /\ handler'[c].pc = "done"
          /\ handler'[c].status = 200
          /\ handler'[c].response.keys = <<"jsonrpc", "id", "result">>
          /\ handler'[c].response.result =
               (IF handler[c].body.method = "eth_chainId" THEN "0xa4b1" ELSE "42161")
          /\ handler'[c].attempts = 0
          /\ handler'[c].inFlight = {}
          /\ endpointHealth' = endpointHealth
          /\ currentIndex' = currentIndex]_vars

\* net_version has been answered locally while the only upstream is unhealthy
C15_Witness ==
  \E c \in Clients :
    /\ handler[c].pc = "done"
    /\ handler[c].body.method = "net_version"
    /\ handler[c].response.result = "42161"
    /\ handler[c].attempts = 0
    /\ Len(RPC_URLS) = 1
    /\ ~endpointHealth[RPC_URLS[1]].isHealthy

\* the response without its id
WithoutId(envelope) == [envelope EXCEPT !.id = "undefined"]

\* C16 (cache): with the cache enabled, of two successful requests with the
\* same method and params arriving within the TTL (the second possibly while
\* the first still awaits its upstream) only one produces upstream traffic,
\* and the two responses are identical except for the id.
C16_CacheSharing ==
  \A c1, c2 \in Clients :
    (/\ c1 # c2
     /\ ENABLE_CACHE
     /\ handler[c1].pc = "done" /\ handler[c2].pc = "done"
     /\ ValidEnvelope(handler[c1].body) /\ ValidEnvelope(handler[c2].body)
     /\ getCacheKey(handler[c1].body) = getCacheKey(handler[c2].body)
     /\ ~Truthy(handler[c1].response.error) /\ ~Truthy(handler[c2].response.error))
    => /\ handler[c1].attempts = 0 \/ handler[c2].attempts = 0
       /\ WithoutId(handler[c1].response) = WithoutId(handler[c2].response)

\* the body is rejected by the framing layer
FramingRejected(b) ==
  \/ b.kind \in ParseRejected
  \/ b.kind = "oversized"
  \/ b.kind = "envelope" /\ ~ValidEnvelope(b)

\* the answer the framing layer owes to a rejected body when it echoes the id
\* as echo(b.id)
FramingAnswer(b, echo(_)) ==
  IF b.kind \in ParseRejected
    THEN [status |-> 400,
          body |-> Envelope(<<"jsonrpc", "id", "error">>, "null", "",
                            ObjError("-32700", <<"parse", " ", "error">>, <<>>))]
  ELSE IF b.kind = "oversized"
    THEN [status |-> 413,
          body |-> Envelope(<<"jsonrpc", "id", "error">>, "null", "",
                            ObjError("-32700", <<"request", " ", "too", " ", "large">>, <<>>))]
  ELSE [status |-> 400,
        body |-> Envelope(<<"jsonrpc", "id", "error">>, echo(b.id), "",
                          ObjError("-32600", <<"invalid", " ", "request">>, <<>>))]

\* an absent id is echoed as null, any other id as it is
EchoId(id) == IF id = "undefined" THEN "null" ELSE id

\* the handler of client c answers a rejected body in this step as
\* FramingAnswer says, and no dispatch, health record, cursor, cache entry or
\* counter of proxy errors, rpc errors and successes changes
RejectsWith(c, echo(_)) ==
  (/\ handler[c].pc # "done"
   /\ handler'[c].pc = "done"
   /\ FramingRejected(handler'[c].body))
  => /\ handler'[c].status = FramingAnswer(handler'[c].body, echo).status
     /\ handler'[c].response = FramingAnswer(handler'[c].body, echo).body
     /\ handler'[c].attempts = 0
     /\ handler'[c].inFlight = {}
     /\ endpointHealth' = endpointHealth
     /\ currentIndex' = currentIndex
     /\ requestCache' = requestCache
     /\ stats'.proxyErrors = stats.proxyErrors
     /\ stats'.rpcErrors = stats.rpcErrors
     /\ stats'.successfulRequests = stats.successfulRequests

\* C17 (framing rejections): an empty, unparseable or non-object body is
\* answered with HTTP 400 and {-32700, "Parse error", id null}; a declared
\* size over MAX_REQUEST_SIZE with HTTP 413 and {-32700, "Request too large",
\* id null}; an envelope without jsonrpc or method with HTTP 400 and {-32600,
\* "Invalid Request", the id echoed}; none of them dispatches or changes the
\* health table, the cursor, the cache, proxyErrors, rpcErrors or
\* successfulRequests.
C17_FramingRejections ==
  [][\A c \in Clients : RejectsWith(c, EchoId)]_vars

\* the envelope at position k of the response array answers element k of the
\* batch: an Invalid Request error for an element that is no valid envelope,
\* and an envelope with the element's id otherwise
AnswersElement(envelope, request) ==
  IF ValidEnvelope(request)
  THEN envelope.id = request.id /\ envelope.error.code # "-32600"
  ELSE Truthy(envelope.error) /\ envelope.error.code = "-32600"

\* C18 (batch handling): a JSON array of n elements (valid envelopes, objects
\* without jsonrpc or method, non-object values such as null) is answered
\* with HTTP 200 and an array of exactly n envelopes in input order, an
\* invalid element yielding the Invalid Request error at its position
\* without touching the processing of the other elements.
C18_BatchHandling ==
  \A c \in Clients :
    (handler[c].pc = "done" /\ handler[c].isBatch)
    => /\ handler[c].status = 200
       /\ Len(handler[c].batchResponses) = Len(handler[c].batch)
       /\ \A k \in 1..Len(handler[c].batch) :
            AnswersElement(handler[c].batchResponses[k], handler[c].batch[k])

\* the single request of client c gets its final response in this step
FinalResponse(c) ==
  /\ handler[c].pc = "resumed"
  /\ ~handler[c].isBatch
  /\ handler'[c].pc = "done"

\* the last dispatch of client c ended on an unreachable upstream, a non-2xx
\* status or the deadline, or on an error body of the endpoint-failure class
EndpointCaused(c) ==
  /\ handler[c].recorded = "failure"
  /\ Truthy(handler[c].result.error)
  /\ handler[c].result.error.data \notin {ThrownMessage("parse"), ThrownMessage("type")}

\* C19 (proxy errors): when the final response of a single request is an
\* error caused by an upstream that is unreachable, answers non-2xx, exceeds
\* the deadline or returns an error body of the endpoint-failure class, the
\* request increments proxyErrors and failedRequests and neither
\* successfulRequests nor rpcErrors.
C19_ProxyErrorsCounted ==
  [][\A c \in Clients :
       (FinalResponse(c) /\ EndpointCaused(c))
       => /\ stats'.proxyErrors = stats.proxyErrors + 1
          /\ stats'.failedRequests = stats.failedRequests + 1
          /\ stats'.successfulRequests = stats.successfulRequests
          /\ stats'.rpcErrors = stats.rpcErrors]_vars

\* C20 (application errors): when the final response of a single request
\* carries an error the classifier labels application-rpc-error, the request
\* increments successfulRequests and rpcErrors by one each, leaves
\* failedRequests and proxyErrors alone, and the dispatch that produced the
\* response was recorded as a success of its endpoint.
C20_ApplicationErrorsCounted ==
  [][\A c \in Clients :
       (/\ FinalResponse(c)
        /\ Truthy(handler[c].result.error)
        /\ ~isEndpointFailure(handler[c].result.error))
       => /\ stats'.successfulRequests = stats.successfulRequests + 1
          /\ stats'.rpcErrors = stats.rpcErrors + 1
          /\ stats'.failedRequests = stats.failedRequests
          /\ stats'.proxyErrors = stats.proxyErrors
          /\ handler[c].recorded = "success"]_vars

\* C21 (final error code): when a single request ends in a proxy/endpoint
\* error (its upstream was unreachable, timed out or returned an error body
\* of the endpoint-failure class), the error code of the response delivered
\* to the client is -32050 or -32603.
C21_FinalErrorCode ==
  [][\A c \in Clients :
       (FinalResponse(c) /\ EndpointCaused(c))
       => /\ Truthy(handler'[c].response.error)
          /\ handler'[c].response.error.code \in {"-32050", "-32603"}]_vars

\* the first request of a lone client to two upstreams, whose primary
\* dispatch returned an error body of the endpoint-failure class and whose
\* one retry returned a result, gets its final response in this step
RetryScenario(c) ==
  /\ FinalResponse(c)
  /\ workload.clients = 1
  /\ Len(RPC_URLS) = 2
  /\ stats.totalRequests = 1
  /\ handler[c].attempts = 2
  /\ handler[c].lastError.error = EpError
  /\ ~Truthy(handler[c].result.error)

\* C22 (retry on endpoint failure): with two healthy idle upstreams, the
\* primary returning an endpoint-failure error body and the other a result,
\* the client receives the second upstream's result; the first endpoint then
\* has consecutiveFailures = 1 and is still healthy, proxyErrors is unchanged,
\* successfulRequests has risen by one and the cursor has advanced by exactly
\* one position.
C22_RetryOnEndpointFailure ==
  [][\A c \in Clients :
       RetryScenario(c)
       => LET first == handler[c].primaryUrl
              second == CHOOSE url \in DOMAIN endpointHealth : url # first IN
          /\ first = RPC_URLS[1]
          /\ handler'[c].status = 200
          /\ handler'[c].response.result = "0x10"
          /\ ~Truthy(handler'[c].response.error)
          /\ endpointHealth'[first].consecutiveFailures = 1
          /\ endpointHealth'[first].isHealthy
          /\ endpointHealth'[second].totalRequests = 1
          /\ endpointHealth'[second].totalFailures = 0
          /\ stats'.proxyErrors = 0
          /\ stats'.successfulRequests = 1
          /\ currentIndex' = 1]_vars

\* the retry of the first request has returned the second upstream's result
\* after the first upstream answered with an endpoint-failure error body
C22_Witness ==
  \E c \in Clients :
    /\ handler[c].pc = "resumed"
    /\ workload.clients = 1
    /\ Len(RPC_URLS) = 2
    /\ stats.totalRequests = 1
    /\ handler[c].attempts = 2
    /\ handler[c].lastError.error = EpError
    /\ handler[c].result.result = "0x10"
    /\ endpointHealth[RPC_URLS[1]].consecutiveFailures = 1
    /\ endpointHealth[RPC_URLS[2]].totalRequests = 1
    /\ currentIndex = 1

\* url is unhealthy since time 0 with n dispatches on record and none in
\* flight, and its upstream is steady
AwaitsRecovery(url, n) ==
  /\ url \in workload.steady
  /\ ~endpointHealth[url].isHealthy
  /\ endpointHealth[url].lastFailure = 0
  /\ endpointHealth[url].totalRequests = n
  /\ endpointHealth[url].activeRequests = 0

\* url is healthy again with consecutiveFailures = 0 and accepted by the
\* primary selector, or a further dispatch to it has started
RecoveredOrDispatched(url, n) ==
  \/ /\ endpointHealth[url].isHealthy
     /\ endpointHealth[url].consecutiveFailures = 0
     /\ Accepts(endpointHealth, url)
  \/ endpointHealth[url].totalRequests # n
  \/ endpointHealth[url].activeRequests > 0

\* C23 (recovery liveness): an unhealthy endpoint that receives no further
\* dispatch and whose upstream answers the probe with a 2xx body without an
\* endpoint-failure error is eventually marked healthy with
\* consecutiveFailures = 0 and eligible for primary selection, the timer
\* firing and the clock moving on.
C23_RecoveryLiveness ==
  \A url \in {1, 2} : \A n \in 0..(2 * MaxLiveRequests) :
    AwaitsRecovery(url, n) ~> RecoveredOrDispatched(url, n)

\* C24 (cursor step): every primary pick advances the round-robin cursor by
\* exactly one position modulo the number of configured URLs, however many
\* positions it rejects and whether or not it ends in the fallback.
C24_CursorAdvancesOnce ==
  [][pickLog' # pickLog
     => currentIndex' = (currentIndex + 1) % Len(RPC_URLS)]_vars

\* the URL at j positions after the cursor, in configured order with wrap
UrlAfterCursor(j) == RPC_URLS[((currentIndex + j) % Len(RPC_URLS)) + 1]

\* the positions after the cursor whose URL passes the acceptance test
AcceptedOffsets ==
  {j \in 0..(Len(RPC_URLS) - 1) : Accepts(endpointHealth, UrlAfterCursor(j))}

\* C25 (acceptance and fallback): a primary pick returns the first URL, from
\* the cursor on in configured order with wrap, that is healthy and below
\* MAX_CONCURRENT_REQUESTS; when no URL passes that test it returns a URL
\* whose activeRequests is minimal over all endpoints, whatever its health.
C25_AcceptanceAndFallback ==
  [][pickLog' # pickLog
     => LET picked == pickLog'[Len(pickLog')] IN
        IF AcceptedOffsets # {}
        THEN /\ Accepts(endpointHealth, picked)
             /\ \E j \in AcceptedOffsets :
                  /\ picked = UrlAfterCursor(j)
                  /\ \A i \in AcceptedOffsets : j <= i
        ELSE /\ picked \in DOMAIN endpointHealth
             /\ \A url \in DOMAIN endpointHealth :
                  endpointHealth[picked].activeRequests <= endpointHealth[url].activeRequests]_vars

\* the fallback has returned an unhealthy endpoint while the other endpoint,
\* unhealthy as well, carries more active requests
C25_Witness ==
  /\ Len(RPC_URLS) = 2
  /\ pickLog = <<2>>
  /\ currentIndex = 0
  /\ ~endpointHealth[1].isHealthy /\ endpointHealth[1].activeRequests = 1
  /\ ~endpointHealth[2].isHealthy /\ endpointHealth[2].activeRequests = 0

\* the URL j positions after the first position of failedUrl, with wrap
UrlAfterFailed(failedUrl, j) ==
  RPC_URLS[((IndexOfFrom(RPC_URLS, failedUrl, 1) + j) % Len(RPC_URLS)) + 1]

\* the positions after failedUrl whose URL differs from it, is healthy and has
\* activeRequests < MAX_CONCURRENT_REQUESTS
RetryOffsets(failedUrl) ==
  IF IndexOfFrom(RPC_URLS, failedUrl, 1) = -1 THEN {}
  ELSE {j \in 1..Len(RPC_URLS) :
          /\ UrlAfterFailed(failedUrl, j) # failedUrl
          /\ Accepts(endpointHealth, UrlAfterFailed(failedUrl, j))}

\* retryUrls lists, in order, the URLs at the first min(n, available) of the
\* positions of RetryOffsets
FirstRetryOffsets(failedUrl, n, retryUrls) ==
  /\ Len(retryUrls) = IF n < Cardinality(RetryOffsets(failedUrl))
                      THEN n ELSE Cardinality(RetryOffsets(failedUrl))
  /\ \A k \in 1..Len(retryUrls) :
       \E j \in RetryOffsets(failedUrl) :
         /\ retryUrls[k] = UrlAfterFailed(failedUrl, j)
         /\ Cardinality({i \in RetryOffsets(failedUrl) : i < j}) = k - 1

\* C26 (retry selection): getRetryRpcUrls(failedUrl, n) returns, in configured
\* order from the position after failedUrl with wrap, the first
\* min(n, available) URLs that differ from failedUrl, are healthy and have
\* activeRequests < MAX_CONCURRENT_REQUESTS; the list never contains failedUrl,
\* never contains a URL twice, is no longer than n, and is empty when failedUrl
\* is the only configured URL.
C26_RetryPicks ==
  [][budget' # budget
     => LET failedUrl == handler'[1].primaryUrl
            retryUrls == handler'[1].retryUrls IN
          /\ FirstRetryOffsets(failedUrl, MAX_RETRY_ATTEMPTS, retryUrls)
          /\ \A k \in 1..Len(retryUrls) : retryUrls[k] # failedUrl
          /\ \A k, m \in 1..Len(retryUrls) : k # m => retryUrls[k] # retryUrls[m]
          /\ Len(retryUrls) <= MAX_RETRY_ATTEMPTS
          /\ RPC_URLS = <<failedUrl>> => retryUrls = <<>>]_vars

\* the dispatch d of client c had its 2xx headers and response.json() has
\* settled in this step with a parsed body (json() did not reject)
BodyParsed(c, d) ==
  /\ d.phase = "body"
  /\ d \notin handler'[c].inFlight
  /\ handler'[c].result.error.data # ThrownMessage("parse")

\* C27 (dispatch health accounting): when a dispatch receives a 2xx body that
\* parses, the endpoint is recorded a failure if and only if the body carries
\* an error the classifier labels endpoint-failure (the error the dispatch then
\* returns); in every other case it is recorded a success: consecutiveFailures
\* is 0 and isHealthy is true afterwards, whatever the health before.
C27_HealthAccounting ==
  [][\A c \in Clients : \A d \in handler[c].inFlight :
       BodyParsed(c, d)
       => LET before == endpointHealth[d.url]
              after == endpointHealth'[d.url]
              returned == handler'[c].result IN
            IF Truthy(returned.error) /\ isEndpointFailure(returned.error)
            THEN /\ after.totalFailures = before.totalFailures + 1
                 /\ after.consecutiveFailures = before.consecutiveFailures + 1
            ELSE /\ after.totalFailures = before.totalFailures
                 /\ after.totalRequests = before.totalRequests + 1
                 /\ after.consecutiveFailures = 0
                 /\ after.isHealthy]_vars

\* C28: whenever isHealthy of an endpoint changes from false to true, through a
\* successful dispatch or through the recovery scanner, its
\* consecutiveFailures is 0 in the resulting state.
C28_HealthyAgainMeansNoFailures ==
  [][\A url \in DOMAIN endpointHealth :
       (~endpointHealth[url].isHealthy /\ endpointHealth'[url].isHealthy)
       => endpointHealth'[url].consecutiveFailures = 0]_vars

\* three failed dispatches in a row marked the endpoint unhealthy, the fourth
\* dispatch reached it through the fallback and succeeded before any scan
C28_Witness ==
  \E url \in DOMAIN endpointHealth :
    /\ now = 0
    /\ endpointHealth[url].totalFailures = UNHEALTHY_THRESHOLD
    /\ endpointHealth[url].totalRequests = UNHEALTHY_THRESHOLD + 1
    /\ endpointHealth[url].isHealthy
    /\ endpointHealth[url].consecutiveFailures = 0
    /\ \E c \in Clients : handler[c].pc = "resumed" /\ handler[c].recorded = "success"

\* the keys of an envelope
KeysOf(envelope) == {envelope.keys[k] : k \in 1..Len(envelope.keys)}

\* C29 (envelope normalization): every envelope a dispatch returns for a 2xx
\* upstream body, whatever the body carries (result only, error only, both,
\* neither, no id), has the jsonrpc key, an id (null when the upstream
\* omitted it) and exactly one of result / error.
C29_EnvelopeNormalized ==
  [][\A c \in Clients : \A d \in handler[c].inFlight :
       (BodyParsed(c, d) /\ handler'[c].result.error.data # ThrownMessage("type"))
       => LET returned == handler'[c].result IN
            /\ "jsonrpc" \in KeysOf(returned)
            /\ "id" \in KeysOf(returned)
            /\ returned.id # "undefined"
            /\ ("result" \in KeysOf(returned)) # ("error" \in KeysOf(returned))]_vars

\* scanner s sends a probe in this step (await fetch of the health check)
ProbeBegins(s) ==
  /\ scanner'[s].pc = "fetch"
  /\ scanner'[s] # scanner[s]

\* the probe of scanner s ends in this step: rejected, aborted, answered
\* non-2xx, or its body has arrived
ProbeEnds(s) ==
  /\ scanner[s].pc \in {"fetch", "body"}
  /\ scanner'[s] # scanner[s]
  /\ ~(scanner[s].pc = "fetch" /\ scanner'[s].pc = "body")

\* C30 (recovery scanner step): a probe is sent to an endpoint only if it is
\* unhealthy and its last failure is more than 60 s old; a probe that ends
\* either sets the endpoint healthy with consecutiveFailures = 0, which only
\* a 2xx answer with a body can do, or leaves the whole health table
\* unchanged; no step of the scanner changes activeRequests, totalRequests or
\* totalFailures of an endpoint.
C30_ScannerStep ==
  [][\A s \in DOMAIN scanner :
       /\ ProbeBegins(s)
          => LET endpoint == endpointHealth'[scanner'[s].endpoint] IN
               /\ ~endpoint.isHealthy
               /\ endpoint.lastFailure # -1
               /\ now' - endpoint.lastFailure > RECOVERY_AGE_S
       /\ ProbeEnds(s)
          => \/ endpointHealth' = endpointHealth
             \/ /\ scanner[s].pc = "body"
                /\ endpointHealth' = [endpointHealth EXCEPT
                                        ![scanner[s].endpoint].isHealthy = TRUE,
                                        ![scanner[s].endpoint].consecutiveFailures = 0]
       /\ scanner'[s] # scanner[s]
          => \A url \in DOMAIN endpointHealth :
               /\ endpointHealth'[url].activeRequests = endpointHealth[url].activeRequests
               /\ endpointHealth'[url].totalRequests = endpointHealth[url].totalRequests
               /\ endpointHealth'[url].totalFailures = endpointHealth[url].totalFailures]_vars

\* client c is answered from the cache in this step
ServedFromCache(c) ==
  /\ handler[c].pc = "reading"
  /\ handler'[c].pc = "done"
  /\ handler'[c].source = "cache"

\* the entry under key is written in this step
Inserted(key) ==
  /\ key \in DOMAIN requestCache'
  /\ key \notin DOMAIN requestCache \/ requestCache'[key] # requestCache[key]

\* C31 (cache contents and expiry): a response is served from the cache only
\* if it was inserted under the key (method and params) of the request less
\* than CACHE_TTL ago; only responses without an error are ever inserted, so
\* no request receives a cached envelope that carries an error; with caching
\* disabled the cache stays empty.
C31_CacheContents ==
  [][/\ \A c \in Clients :
          ServedFromCache(c)
          => LET key == getCacheKey(handler[c].body) IN
               /\ key \in DOMAIN requestCache
               /\ now - requestCache[key].timestamp < CACHE_TTL_S
               /\ WithoutId(handler'[c].response) = WithoutId(requestCache[key].response)
               /\ ~Truthy(handler'[c].response.error)
     /\ \A key \in DOMAIN requestCache' :
          /\ ~Truthy(requestCache'[key].response.error)
          /\ Inserted(key)
             => /\ requestCache'[key].timestamp = now
                /\ \E c \in Clients : /\ key = getCacheKey(handler[c].body)
                                      /\ handler'[c].pc = "done"
                                      /\ handler'[c].response = requestCache'[key].response
     /\ ~ENABLE_CACHE => requestCache' = <<>>]_vars

\* the entry written at time 0 had expired when the same request came again:
\* it was dispatched a second time and cached anew, and the request after
\* that is answered from the new entry
C31_Witness ==
  /\ ENABLE_CACHE
  /\ now = SCAN_INTERVAL_S
  /\ handler[1].pc = "done" /\ handler[1].source = "cache"
  /\ handler[1].body.method = "eth_call"
  /\ requestCache[getCacheKey(handler[1].body)].timestamp = now
  /\ endpointHealth[1].totalRequests = 1 /\ endpointHealth[2].totalRequests = 1
  /\ stats.totalRequests = 3 /\ stats.successfulRequests = 3 /\ stats.rpcErrors = 0

\* C32 (per-endpoint counters): in every reachable state totalFailures <=
\* totalRequests for every endpoint, and no step (dispatch success, dispatch
\* failure, recovery scan) lowers totalRequests or totalFailures.
C32_EndpointCounters ==
  /\ [](\A url \in DOMAIN endpointHealth :
          endpointHealth[url].totalFailures <= endpointHealth[url].totalRequests)
  /\ [][\A url \in DOMAIN endpointHealth :
          /\ endpointHealth'[url].totalRequests >= endpointHealth[url].totalRequests
          /\ endpointHealth'[url].totalFailures >= endpointHealth[url].totalFailures]_vars

\* every dispatch to the endpoint has failed and the scanner has made it
\* healthy again: the two counters are equal and untouched by the scan
C32_Witness ==
  \E url \in DOMAIN endpointHealth :
    /\ endpointHealth[url].totalRequests = UNHEALTHY_THRESHOLD
    /\ endpointHealth[url].totalFailures = UNHEALTHY_THRESHOLD
    /\ endpointHealth[url].isHealthy
    /\ endpointHealth[url].consecutiveFailures = 0

\* C33: in every reachable state an endpoint is healthy exactly when its
\* consecutiveFailures is below 3, and an unhealthy endpoint has a
\* lastFailure timestamp, under every interleaving of dispatch successes,
\* dispatch failures and recovery-scanner updates.
C33_HealthyIffBelowThreshold ==
  \A url \in DOMAIN endpointHealth :
    /\ endpointHealth[url].isHealthy
         <=> endpointHealth[url].consecutiveFailures < UNHEALTHY_THRESHOLD
    /\ ~endpointHealth[url].isHealthy => endpointHealth[url].lastFailure # -1

\* an unhealthy endpoint was reached through the fallback after a scan had
\* recovered it once, and failed again: its count has passed the threshold
C33_Witness ==
  \E url \in DOMAIN endpointHealth :
    /\ ~endpointHealth[url].isHealthy
    /\ endpointHealth[url].consecutiveFailures = UNHEALTHY_THRESHOLD + 1
    /\ endpointHealth[url].totalFailures = 2 * UNHEALTHY_THRESHOLD + 1
    /\ endpointHealth[url].totalRequests = endpointHealth[url].totalFailures
    /\ endpointHealth[url].lastFailure > 0

\* the dispatch d of client c leaves proxyRequest in this step
DispatchExits(c, d) ==
  /\ d \in handler[c].inFlight
  /\ \A e \in handler'[c].inFlight : e.url # d.url

\* C34: every dispatch to a configured URL records exactly one health outcome
\* on every exit path: the step in which it ends adds 1 to totalRequests of
\* its URL and 0 (success) or 1 (failure) to totalFailures, and no other step
\* changes these counters; so when no dispatch is in flight totalRequests is
\* the number of dispatches completed against the endpoint and totalFailures
\* the number of those recorded as failures.
C34_OneOutcomePerDispatch ==
  [][/\ \A c \in Clients : \A d \in handler[c].inFlight :
          (DispatchExits(c, d) /\ d.url \in DOMAIN endpointHealth)
          => LET before == endpointHealth[d.url]
                 after == endpointHealth'[d.url] IN
               /\ after.totalRequests = before.totalRequests + 1
               /\ \/ /\ after.totalFailures = before.totalFailures + 1
                     /\ handler'[c].recorded = "failure"
                  \/ /\ after.totalFailures = before.totalFailures
                     /\ handler'[c].recorded = "success"
     /\ \A url \in DOMAIN endpointHealth :
          (\/ endpointHealth'[url].totalRequests # endpointHealth[url].totalRequests
           \/ endpointHealth'[url].totalFailures # endpointHealth[url].totalFailures)
          => \E c \in Clients : \E d \in handler[c].inFlight :
               d.url = url /\ DispatchExits(c, d)]_vars

\* two clients have each made one dispatch to the only upstream, one ended in
\* the catch block and one with a result: two requests and one failure are
\* recorded and nothing is in flight
C34_Witness ==
  /\ RPC_URLS = <<1>>
  /\ stats.totalRequests = 2
  /\ handler[1].pc = "done" /\ handler[1].attempts = 1 /\ Truthy(handler[1].response.error)
  /\ handler[2].pc = "done" /\ handler[2].attempts = 1 /\ ~Truthy(handler[2].response.error)
  /\ endpointHealth[1].activeRequests = 0
  /\ endpointHealth[1].totalRequests = 2
  /\ endpointHealth[1].totalFailures = 1

\* the URLs client c starts a dispatch to in this step
StartedUrls(c) ==
  {d.url : d \in {e \in handler'[c].inFlight \ handler[c].inFlight : e.phase = "fetch"}}

\* the entries of a list of URLs
UrlsOf(urls) == {urls[k] : k \in 1..Len(urls)}

\* C35: within one client request no URL is dispatched to more than once.
\* When the retry list is computed after the primary failure, the retry
\* started first and the URLs kept for later are pairwise distinct and all
\* differ from the primary URL, whatever the health and load and also after
\* a primary pick through the fallback; every later retry goes to the head
\* of the kept list, which is then dropped from it.
C35_NoUrlTwice ==
  [][\A c \in Clients :
       /\ (handler[c].stage = "primary" /\ handler'[c].stage = "retry")
          => /\ Cardinality(StartedUrls(c)) = 1
             /\ StartedUrls(c) \cap UrlsOf(handler'[c].retryUrls) = {}
             /\ Cardinality(UrlsOf(handler'[c].retryUrls)) = Len(handler'[c].retryUrls)
             /\ handler'[c].primaryUrl = handler[c].primaryUrl
             /\ handler[c].primaryUrl \notin StartedUrls(c) \cup UrlsOf(handler'[c].retryUrls)
       /\ (handler[c].stage = "retry" /\ StartedUrls(c) # {})
          => /\ handler[c].retryUrls # <<>>
             /\ StartedUrls(c) = {Head(handler[c].retryUrls)}
             /\ handler'[c].retryUrls = Tail(handler[c].retryUrls)
             /\ handler'[c].primaryUrl = handler[c].primaryUrl]_vars

\* the third dispatch of one request is in flight: the primary URL and the
\* first retry URL have failed and the second retry URL is being tried
C35_Witness ==
  \E c \in Clients :
    /\ Len(RPC_URLS) = 3
    /\ handler[c].stage = "retry"
    /\ handler[c].attempts = 3
    /\ handler[c].completed = 2
    /\ handler[c].retryUrls = <<>>
    /\ \E d \in handler[c].inFlight : d.url # handler[c].primaryUrl

\* C36: a retry dispatch is started only against an endpoint that is healthy
\* at the moment the dispatch begins, under every interleaving of concurrent
\* client requests.
C36_RetryOnlyToHealthy ==
  [][\A c \in Clients :
       handler'[c].stage = "retry"
       => \A url \in StartedUrls(c) : endpointHealth[url].isHealthy]_vars

\* C37: the recovery scanner writes isHealthy = true / consecutiveFailures = 0
\* only on an endpoint that is still unhealthy at that moment: a probe that
\* ends never changes the record of an endpoint that has become healthy
\* again, and has started a new streak of failures, while the scan was in
\* progress.
C37_ScannerWritesUnhealthyOnly ==
  [][\A s \in DOMAIN scanner :
       (/\ ProbeEnds(s)
        /\ endpointHealth'[scanner[s].endpoint] # endpointHealth[scanner[s].endpoint])
       => ~endpointHealth[scanner[s].endpoint].isHealthy]_vars

\* every POST /rpc received so far has been answered
AllAnswered == \A c \in Clients : handler[c].pc \in {"idle", "done"}

\* C38 (statistics conservation): in every reachable state
\* successfulRequests + failedRequests <= totalRequests, and once every
\* received POST /rpc (single envelope, batch array or empty-object probe)
\* has been answered totalRequests = successfulRequests + failedRequests:
\* each POST increments exactly one of the two counters exactly once.
C38_StatsConservation ==
  /\ stats.successfulRequests + stats.failedRequests <= stats.totalRequests
  /\ AllAnswered => stats.totalRequests = stats.successfulRequests + stats.failedRequests

====
